---- MODULE Spec2Model ----
(***************************************************************************)
(* SymbolicMemoryMCP: the symbol store and alias index (server.py), the    *)
(* deterministic taxonomy suggester (server.py) and the apply / edit /     *)
(* undo workflow of the command-line client (client.py).                   *)
(*                                                                         *)
(* Text is modelled as Python models it: a string is a sequence of         *)
(* one-character strings, so that strip(), lower(), split("/"), the        *)
(* tokenizer's regular expression and the length limits of SaveArgs are    *)
(* computed and not assumed.  An Optional[str] is <<>> for None and <<s>>  *)
(* for the string s.                                                       *)
(***************************************************************************)
EXTENDS Integers, Sequences, FiniteSets, TLC

VARIABLES
    texts,      \* table texts: symbol -> row
    aliases,    \* table aliases: alias -> symbol
    now,        \* the server clock, in seconds (now_iso)
    req,        \* the last request a direct MCP caller sent
    resp,       \* the response it got
    nsaves,     \* number of direct save requests so far
    last_apply, \* the file .sm_last_apply.json
    pc,         \* where the client's cmd_save is: "idle" or "prompt" (waiting in input())
    blk,        \* cmd_save: the DEFINE block being saved
    result,     \* cmd_save: the response to the first save
    sel,        \* cmd_save: the suggestion picked, shown in the prompt
    stdin,      \* cmd_save: what the user typed at the prompts
    ans,        \* cmd_save: the answer acted on
    rpcs,       \* cmd_save: the save calls of this invocation and their responses
    printed,    \* the terminal: how each finished invocation ended
    ninv,       \* number of cmd_save invocations so far
    tx,         \* per server process: the save request it is handling, step by step
    br          \* the tool-calling bridge: where run_loop is, its messages, how it ended

store == <<texts, aliases, now>>

direct == <<req, resp, nsaves, tx>>

client == <<last_apply, pc, blk, result, sel, stdin, ans, rpcs, printed, ninv>>

vars == <<store, direct, client, br>>

----------------------------------------------------------------------------
(* Bounds of the model *)

MaxSaves == 2

MaxInvocations == 3

MaxClock == 3

----------------------------------------------------------------------------
(* Python values *)

None == <<>>

Some(x) == <<x>>

Val(o) == o[1]

\* truth value of an Optional[str]: None and "" are false
Truthy(o) == o # None /\ Val(o) # <<>>

Rep(c, n) == [i \in 1..n |-> c]

RECURSIVE lstrip(_)
lstrip(s) == IF s # <<>> /\ Head(s) = " " THEN lstrip(Tail(s)) ELSE s

RECURSIVE rstrip(_)
rstrip(s) ==
    IF s # <<>> /\ s[Len(s)] = " " THEN rstrip(SubSeq(s, 1, Len(s) - 1)) ELSE s

\* str.strip()
strip(s) == rstrip(lstrip(s))

UpperToLower == [c \in {"A", "B", "E", "N", "U", "X", "Y"} |->
    CASE c = "A" -> "a" [] c = "B" -> "b" [] c = "E" -> "e" [] c = "N" -> "n"
      [] c = "U" -> "u" [] c = "X" -> "x" [] c = "Y" -> "y"]

\* str.lower()
lower(s) == [i \in 1..Len(s) |->
    IF s[i] \in DOMAIN UpperToLower THEN UpperToLower[s[i]] ELSE s[i]]

\* index of the first occurrence of sub in s at or after i, 0 when there is none
RECURSIVE find(_, _, _)
find(s, sub, i) ==
    IF i + Len(sub) - 1 > Len(s) THEN 0
    ELSE IF SubSeq(s, i, i + Len(sub) - 1) = sub THEN i
    ELSE find(s, sub, i + 1)

\* sub in s
contains(s, sub) == find(s, sub, 1) # 0

\* index of the last occurrence of the character c in s, 0 when there is none
RECURSIVE rfind(_, _, _)
rfind(s, c, i) == IF i = 0 THEN 0 ELSE IF s[i] = c THEN i ELSE rfind(s, c, i - 1)

\* s.split("/")[-1]
last_segment(s) == SubSeq(s, rfind(s, "/", Len(s)) + 1, Len(s))

----------------------------------------------------------------------------
(* Tokenizer and similarity *)

MaxTokens == 80

\* the characters _TOKEN_RE matches in lowercased text: [a-z0-9_]
TokenChars ==
    {"a", "b", "c", "d", "e", "f", "g", "h", "i", "j", "k", "l", "m", "n", "o", "p", "q",
     "r", "s", "t", "u", "v", "w", "x", "y", "z", "0", "1", "2", "3", "4", "5", "6", "7",
     "8", "9", "_"}

\* _TOKEN_RE.findall: the maximal runs of token characters, left to right
RECURSIVE findall(_, _, _)
findall(s, i, cur) ==
    IF i > Len(s) THEN (IF cur = <<>> THEN <<>> ELSE <<cur>>)
    ELSE IF s[i] \in TokenChars THEN findall(s, i + 1, Append(cur, s[i]))
    ELSE (IF cur = <<>> THEN <<>> ELSE <<cur>>) \o findall(s, i + 1, <<>>)

Range(q) == {q[i] : i \in 1..Len(q)}

RECURSIVE dedup(_, _, _, _)
dedup(toks, i, out, max_tokens) ==
    IF i > Len(toks) THEN out
    ELSE IF toks[i] \in Range(out) THEN dedup(toks, i + 1, out, max_tokens)
    ELSE IF Len(out) + 1 >= max_tokens THEN Append(out, toks[i])
    ELSE dedup(toks, i + 1, Append(out, toks[i]), max_tokens)

tokenize(text, max_tokens) == dedup(findall(lower(text), 1, <<>>), 1, <<>>, max_tokens)

\* the similarity as the exact fraction inter / union; 0/1 when both are empty
jaccard(a, b) ==
    LET sa == Range(a)
        sb == Range(b)
    IN  IF sa = {} /\ sb = {} THEN [num |-> 0, den |-> 1]
        ELSE [num |-> Cardinality(sa \cap sb), den |-> Cardinality(sa \cup sb)]

----------------------------------------------------------------------------
(* The store *)

SymbolMaxLen == 128

CatMaxLen == 64

SubcatMaxLen == 128

sha256_text(text) == <<"sha256", text>>

\* the JSON value null where a string is expected: an element of aliases that is not
\* a str
JsonNull == <<"null">>

\* a validation that only requires symbol and text to be there and not empty
valid_args_required_only(args) ==
    /\ args.symbol # None
    /\ Len(Val(args.symbol)) >= 1
    /\ args.text # None
    /\ Len(Val(args.text)) >= 1

\* pydantic's validation of the tool arguments against SaveArgs
valid_args(args) ==
    /\ args.symbol # None
    /\ Len(Val(args.symbol)) >= 1
    /\ Len(Val(args.symbol)) <= SymbolMaxLen
    /\ args.text # None
    /\ Len(Val(args.text)) >= 1
    /\ args.cat # None => Len(Val(args.cat)) <= CatMaxLen
    /\ args.subcat # None => Len(Val(args.subcat)) <= SubcatMaxLen
    /\ \A i \in 1..Len(args.aliases) : args.aliases[i] # JsonNull

\* resolve_symbol looking in the alias index before the entry table
resolve_symbol_alias_first(t, al, sym) ==
    IF sym \in DOMAIN al THEN Some(al[sym])
    ELSE IF sym \in DOMAIN t THEN Some(sym)
    ELSE None

resolve_symbol(t, al, sym) ==
    IF sym \in DOMAIN t THEN Some(sym)
    ELSE IF sym \in DOMAIN al THEN Some(al[sym])
    ELSE None

\* get_existing_meta returning the two columns in the wrong order
get_existing_meta_swapped(t, symbol) ==
    IF symbol \notin DOMAIN t THEN [cat |-> None, subcat |-> None]
    ELSE [cat |-> t[symbol].subcat, subcat |-> t[symbol].cat]

get_existing_meta(t, symbol) ==
    IF symbol \notin DOMAIN t THEN [cat |-> None, subcat |-> None]
    ELSE [cat |-> t[symbol].cat, subcat |-> t[symbol].subcat]

\* an UPDATE that keeps a stored cat or subcat where the save supplies none
write_row_merge(t, symbol, text, cat, subcat, ts) ==
    IF symbol \in DOMAIN t
    THEN [t[symbol] EXCEPT !.body = text,
                            !.cat = IF cat = None THEN @ ELSE cat,
                            !.subcat = IF subcat = None THEN @ ELSE subcat,
                            !.hash = sha256_text(text), !.ts_updated = ts]
    ELSE [body |-> text, cat |-> cat, subcat |-> subcat, hash |-> sha256_text(text),
          ts_created |-> ts, ts_updated |-> ts]

\* an UPDATE that also sets ts_created, as a row written anew would have it
write_row_recreate(t, symbol, text, cat, subcat, ts) ==
    [body |-> text, cat |-> cat, subcat |-> subcat, hash |-> sha256_text(text),
     ts_created |-> ts, ts_updated |-> ts]

\* the row written by the UPDATE or the INSERT of save_text
write_row(t, symbol, text, cat, subcat, ts) ==
    IF symbol \in DOMAIN t
    THEN [t[symbol] EXCEPT !.body = text, !.cat = cat, !.subcat = subcat,
                            !.hash = sha256_text(text), !.ts_updated = ts]
    ELSE [body |-> text, cat |-> cat, subcat |-> subcat, hash |-> sha256_text(text),
          ts_created |-> ts, ts_updated |-> ts]

\* the alias loop with INSERT OR IGNORE: an alias already present keeps its symbol
RECURSIVE write_aliases_ignore(_, _, _, _)
write_aliases_ignore(al, list, i, symbol) ==
    IF i > Len(list) THEN al
    ELSE LET a == strip(list[i])
         IN  IF a = <<>> THEN write_aliases_ignore(al, list, i + 1, symbol)
             ELSE write_aliases_ignore(al @@ (a :> symbol), list, i + 1, symbol)

\* the alias loop with the two columns the other way round: symbol -> alias
RECURSIVE write_aliases_swapped(_, _, _, _)
write_aliases_swapped(al, list, i, symbol) ==
    IF i > Len(list) THEN al
    ELSE LET a == strip(list[i])
         IN  IF a = <<>> THEN write_aliases_swapped(al, list, i + 1, symbol)
             ELSE write_aliases_swapped((symbol :> a) @@ al, list, i + 1, symbol)

\* the alias loop of save_text: INSERT OR REPLACE of every non-blank stripped alias
RECURSIVE write_aliases(_, _, _, _)
write_aliases(al, list, i, symbol) ==
    IF i > Len(list) THEN al
    ELSE LET a == strip(list[i])
         IN  IF a = <<>> THEN write_aliases(al, list, i + 1, symbol)
             ELSE write_aliases((a :> symbol) @@ al, list, i + 1, symbol)

\* a status that tells a created entry from an updated one the wrong way round
save_status_swapped(existed) == IF existed THEN "created" ELSE "updated"

\* "created" if not existed else "updated"
save_status(existed) == IF existed THEN "updated" ELSE "created"

\* save_text on parsed arguments: the tables after the commit and the result
save_text(t, al, ts, args) ==
    LET symbol  == Val(args.symbol)
        text    == Val(args.text)
        prev    == get_existing_meta(t, symbol)
        existed == symbol \in DOMAIN t
        row     == write_row(t, symbol, text, args.cat, args.subcat, ts)
    IN  [texts   |-> (symbol :> row) @@ t,
         aliases |-> write_aliases(al, args.aliases, 1, symbol),
         result  |-> [status     |-> save_status(existed),
                      symbol     |-> symbol,
                      hash       |-> sha256_text(text),
                      ts_created |-> row.ts_created,
                      ts_updated |-> ts,
                      prev       |-> prev]]

----------------------------------------------------------------------------
(* Exact fractions: similarities and their sums *)

RECURSIVE gcd(_, _)
gcd(a, b) == IF b = 0 THEN a ELSE gcd(b, a % b)

frac(n, d) == LET g == gcd(n, d) IN IF g = 0 THEN [num |-> 0, den |-> 1]
                                    ELSE [num |-> n \div g, den |-> d \div g]

fadd(x, y) == frac(x.num * y.den + y.num * x.den, x.den * y.den)

fless(x, y) == x.num * y.den < y.num * x.den

ScoreScale == 10000

\* round(x / total, 4) in ten-thousandths, ties to even
round4(x, total) ==
    LET r   == frac(x.num * total.den, x.den * total.num)
        p   == ScoreScale * r.num
        fl  == p \div r.den
        rem == p - fl * r.den
    IN  IF 2 * rem > r.den THEN fl + 1
        ELSE IF 2 * rem < r.den THEN fl
        ELSE IF fl % 2 = 0 THEN fl ELSE fl + 1

----------------------------------------------------------------------------
(* The taxonomy suggester *)

LimitRows == 2000

MinSimNum == 1

MinSimDen == 10

TopN == 3

TopNeighbors == 5

\* the symbols of the rows WHERE cat IS NOT NULL OR subcat IS NOT NULL
tagged(t) == {s \in DOMAIN t : t[s].cat # None \/ t[s].subcat # None}

\* all orders in which the rows of S can be returned (the query has no ORDER BY)
RECURSIVE orders(_)
orders(S) == IF S = {} THEN {<<>>}
             ELSE UNION {{<<s>> \o q : q \in orders(S \ {s})} : s \in S}

\* the results the SELECT ... LIMIT ? of suggest_taxonomy can give
scan_orders(t) == {SubSeq(q, 1, IF Len(q) < LimitRows THEN Len(q) ELSE LimitRows) :
                      q \in orders(tagged(t))}

\* d[key] = d.get(key, 0.0) + w on a dict kept in insertion order
RECURSIVE dict_add(_, _, _, _)
dict_add(d, i, key, w) ==
    IF i > Len(d) THEN Append(d, [key |-> key, v |-> w])
    ELSE IF d[i].key = key THEN [d EXCEPT ![i].v = fadd(d[i].v, w)]
    ELSE dict_add(d, i + 1, key, w)

pair_key(cat, subcat) == cat \o <<":", ":">> \o subcat

\* a threshold test that also discards a similarity of exactly min_sim
below_min_sim_or_equal(sim) == sim.num * MinSimDen <= MinSimNum * sim.den

\* sim < min_sim
below_min_sim(sim) == sim.num * MinSimDen < MinSimNum * sim.den

\* the loop over the scanned rows
RECURSIVE scan(_, _, _, _, _)
scan(t, rows, i, new_toks, acc) ==
    IF i > Len(rows) THEN acc
    ELSE LET sym    == rows[i]
             cat    == t[sym].cat
             subcat == t[sym].subcat
             toks   == tokenize(sym \o <<" ">> \o t[sym].body, MaxTokens)
             sim    == jaccard(new_toks, toks)
         IN  IF ~Truthy(cat) /\ ~Truthy(subcat) THEN scan(t, rows, i + 1, new_toks, acc)
             ELSE IF below_min_sim(sim) THEN scan(t, rows, i + 1, new_toks, acc)
             ELSE scan(t, rows, i + 1, new_toks,
                    [neighbors     |-> Append(acc.neighbors, [key |-> sym, v |-> sim]),
                     cat_scores    |-> IF Truthy(cat)
                                       THEN dict_add(acc.cat_scores, 1, Val(cat), sim)
                                       ELSE acc.cat_scores,
                     subcat_scores |-> IF Truthy(cat) /\ Truthy(subcat)
                                       THEN dict_add(acc.subcat_scores, 1,
                                                     pair_key(Val(cat), Val(subcat)), sim)
                                       ELSE acc.subcat_scores])

\* position of x in a list sorted by descending weight, after its equals (stable)
RECURSIVE insert_desc(_, _)
insert_desc(q, x) ==
    IF q = <<>> THEN <<x>>
    ELSE IF fless(Head(q).v, x.v) THEN <<x>> \o q
    ELSE <<Head(q)>> \o insert_desc(Tail(q), x)

\* sorted(items, key=weight, reverse=True)
RECURSIVE sorted_desc(_, _)
sorted_desc(q, i) ==
    IF i = 0 THEN <<>> ELSE insert_desc(sorted_desc(q, i - 1), q[i])

first_n(q, n) == SubSeq(q, 1, IF Len(q) < n THEN Len(q) ELSE n)

RECURSIVE fsum(_, _)
fsum(d, i) == IF i = 0 THEN [num |-> 0, den |-> 1] ELSE fadd(fsum(d, i - 1), d[i].v)

\* sum(d.values()) or 1.0
total_of(d) == LET s == fsum(d, Len(d)) IN IF s.num = 0 THEN [num |-> 1, den |-> 1] ELSE s

\* top_n returning the aggregates as they are, not divided by their sum
top_n_raw(d, n) ==
    LET items == first_n(sorted_desc(d, Len(d)), n)
    IN  [i \in 1..Len(items) |->
            [value |-> items[i].key, score |-> round4(items[i].v, [num |-> 1, den |-> 1])]]

top_n(d, n) ==
    LET items == first_n(sorted_desc(d, Len(d)), n)
        total == total_of(d)
    IN  [i \in 1..Len(items) |->
            [value |-> items[i].key, score |-> round4(items[i].v, total)]]

\* k.split("::", 1) of a pair key, and the normalized score
top_pairs(d, n) ==
    LET items == first_n(sorted_desc(d, Len(d)), n)
        total == total_of(d)
    IN  [i \in 1..Len(items) |->
            LET k   == items[i].key
                at  == find(k, <<":", ":">>, 1)
            IN  [cat   |-> SubSeq(k, 1, at - 1),
                 value |-> SubSeq(k, at + 2, Len(k)),
                 score |-> round4(items[i].v, total)]]

One == [num |-> 1, den |-> 1]

\* suggest_taxonomy returning an empty result where it has nothing to suggest
suggest_taxonomy_empty(t, rows, symbol, text) ==
    LET new_toks == tokenize(symbol \o <<" ">> \o text, MaxTokens)
        acc      == scan(t, rows, 1, new_toks,
                         [neighbors |-> <<>>, cat_scores |-> <<>>, subcat_scores |-> <<>>])
        nb       == first_n(sorted_desc(acc.neighbors, Len(acc.neighbors)), TopNeighbors)
    IN  Some([cat       |-> top_n(acc.cat_scores, TopN),
              subcat    |-> top_pairs(acc.subcat_scores, TopN),
              neighbors |-> [i \in 1..Len(nb) |->
                               [symbol |-> nb[i].key, sim |-> round4(nb[i].v, One)]]])

\* suggest_taxonomy over the rows the scan returned: None or Some(suggestions)
suggest_taxonomy(t, rows, symbol, text) ==
    LET new_toks == tokenize(symbol \o <<" ">> \o text, MaxTokens)
        acc      == scan(t, rows, 1, new_toks,
                         [neighbors |-> <<>>, cat_scores |-> <<>>, subcat_scores |-> <<>>])
        nb       == first_n(sorted_desc(acc.neighbors, Len(acc.neighbors)), TopNeighbors)
    IN  IF new_toks = <<>> THEN None
        ELSE IF rows = <<>> THEN None
        ELSE IF acc.cat_scores = <<>> /\ acc.subcat_scores = <<>> THEN None
        ELSE Some([cat       |-> top_n(acc.cat_scores, TopN),
                   subcat    |-> top_pairs(acc.subcat_scores, TopN),
                   neighbors |-> [i \in 1..Len(nb) |->
                                    [symbol |-> nb[i].key,
                                     sim    |-> round4(nb[i].v, One)]]])

----------------------------------------------------------------------------
(* The MCP endpoint *)

\* tools/call sm.texts.save: the tables afterwards and the response
mcp_save(t, al, ts, args, rows) ==
    IF ~valid_args(args)
    THEN [texts |-> t, aliases |-> al, resp |-> [kind |-> "fault", status |-> 500]]
    ELSE LET r == save_text(t, al, ts, args)
             s == IF args.cat = None \/ args.subcat = None
                  THEN suggest_taxonomy(r.texts, rows, Val(args.symbol), Val(args.text))
                  ELSE None
         IN  [texts   |-> r.texts,
              aliases |-> r.aliases,
              resp    |-> [kind |-> "result", result |-> r.result, suggestions |-> s]]

\* the rows the suggester's SELECT can return after the save of args (no SELECT is
\* made for arguments that are invalid or carry both cat and subcat)
rows_after(t, al, ts, args) ==
    IF valid_args(args) /\ (args.cat = None \/ args.subcat = None)
    THEN scan_orders(save_text(t, al, ts, args).texts)
    ELSE {<<>>}

\* resources/read
mcp_read(t, al, uri) ==
    IF ~contains(uri, <<":", "/", "/">>) THEN [kind |-> "fault", status |-> 400]
    ELSE LET symbol   == last_segment(uri)
             resolved == resolve_symbol(t, al, symbol)
         IN  IF ~Truthy(resolved) THEN [kind |-> "fault", status |-> 404]
             ELSE IF Val(resolved) \notin DOMAIN t THEN [kind |-> "fault", status |-> 404]
             ELSE [kind |-> "contents", uri |-> uri, text |-> t[Val(resolved)].body]

\* the uri the clients build for a name
uri_of(name) == <<"r", ":", "/", "/", "s", "m", "/", "v", "1", "/", "t", "/">> \o name

----------------------------------------------------------------------------
(* The client: suggestion UX *)

MinScore == 6500

pick_top_suggestion(suggestions) ==
    LET cat_sug == suggestions.cat
        sub_sug == suggestions.subcat
        top_cat0 == IF cat_sug # <<>> THEN Some(cat_sug[1].value) ELSE None
        top_cat_score0 == IF cat_sug # <<>> THEN cat_sug[1].score ELSE 0
        matching == {i \in 1..Len(sub_sug) : Truthy(top_cat0) /\ sub_sug[i].cat = Val(top_cat0)}
        first == CHOOSE i \in matching : \A j \in matching : i <= j
        fallback == sub_sug # <<>> /\ matching = {}
        chosen_sub == IF sub_sug = <<>> THEN None
                      ELSE IF matching # {} THEN Some(sub_sug[first].value)
                      ELSE Some(sub_sug[1].value)
        chosen_sub_score == IF sub_sug = <<>> THEN 0
                            ELSE IF matching # {} THEN sub_sug[first].score
                            ELSE sub_sug[1].score
        top_cat == IF fallback /\ sub_sug[1].cat # <<>> THEN Some(sub_sug[1].cat) ELSE top_cat0
        top_cat_score == IF fallback /\ sub_sug[1].cat # <<>> /\ top_cat_score0 = 0
                         THEN sub_sug[1].score ELSE top_cat_score0
    IN  [cat    |-> top_cat,
         subcat |-> chosen_sub,
         score  |-> IF Truthy(top_cat) /\ Truthy(chosen_sub)
                    THEN (IF top_cat_score < chosen_sub_score THEN top_cat_score
                          ELSE chosen_sub_score)
                    ELSE IF top_cat_score # 0 THEN top_cat_score ELSE chosen_sub_score]

\* _prompt_apply with default_yes = score > MIN_SCORE
prompt_apply_strict(score, typed) ==
    LET stripped == strip(typed)
    IN  lower(IF stripped = <<>> THEN (IF score > MinScore THEN <<"Y">> ELSE <<"n">>)
              ELSE stripped)

\* _prompt_apply taking the default for every answer it does not know
prompt_apply_default_unknown(score, typed) ==
    LET stripped == lower(strip(typed))
    IN  IF stripped \in {<<"y">>, <<"n">>, <<"e">>, <<"u">>} THEN stripped
        ELSE IF score >= MinScore THEN <<"y">> ELSE <<"n">>

\* _prompt_apply followed by .lower(): the answer cmd_save acts on
prompt_apply(score, typed) ==
    LET stripped == strip(typed)
    IN  lower(IF stripped = <<>> THEN (IF score >= MinScore THEN <<"Y">> ELSE <<"n">>)
              ELSE stripped)

\* input(...).strip() or (suggested or None)
edit_field(suggested, typed) ==
    IF strip(typed) # <<>> THEN Some(strip(typed))
    ELSE IF Truthy(suggested) THEN suggested ELSE None

prompt_edit(cat, subcat, typed_cat, typed_sub) ==
    [cat |-> edit_field(cat, typed_cat), subcat |-> edit_field(subcat, typed_sub)]

\* _load_last_apply giving an empty record of the current block when there is no file
load_last_apply_default(file) ==
    IF file.kind = "json" THEN Some(file.data)
    ELSE Some([symbol |-> blk.symbol, prev_cat |-> None, prev_subcat |-> None,
               new_cat |-> None, new_subcat |-> None, score |-> 0])

\* _load_last_apply: None when the file is missing or is not JSON
load_last_apply(file) == IF file.kind = "json" THEN Some(file.data) ELSE None

\* _save_last_apply that does not overwrite a record already in the file
save_last_apply_keep(data) ==
    IF last_apply.kind = "json" THEN last_apply ELSE [kind |-> "json", data |-> data]

\* _save_last_apply
save_last_apply(data) == [kind |-> "json", data |-> data]

\* the payloads cmd_save sends
first_payload(b) ==
    [symbol |-> Some(b.symbol), text |-> Some(b.body), cat |-> b.cat, subcat |-> b.subcat,
     aliases |-> b.aliases]

\* a rollback that sends the taxonomy the record applied, not the one it replaced
rb_payload_new(last, b) ==
    [symbol |-> Some(last.symbol), text |-> Some(b.body), cat |-> last.new_cat,
     subcat |-> last.new_subcat, aliases |-> b.aliases]

rb_payload(last, b) ==
    [symbol |-> Some(last.symbol), text |-> Some(b.body), cat |-> last.prev_cat,
     subcat |-> last.prev_subcat, aliases |-> b.aliases]

\* an apply payload that keeps the category or the subcategory of the DEFINE block
apply_payload_keep(b, cat, subcat) ==
    [symbol |-> Some(b.symbol), text |-> Some(b.body),
     cat |-> IF b.cat # None THEN b.cat ELSE cat,
     subcat |-> IF b.subcat # None THEN b.subcat ELSE subcat,
     aliases |-> b.aliases]

apply_payload(b, cat, subcat) ==
    [symbol |-> Some(b.symbol), text |-> Some(b.body), cat |-> cat, subcat |-> subcat,
     aliases |-> b.aliases]

\* a record whose previous taxonomy is the one just applied
apply_record_new_as_prev(b, prev, cat, subcat, score) ==
    [symbol |-> b.symbol, prev_cat |-> cat, prev_subcat |-> subcat,
     new_cat |-> cat, new_subcat |-> subcat, score |-> score]

apply_record(b, prev, cat, subcat, score) ==
    [symbol |-> b.symbol, prev_cat |-> prev.cat, prev_subcat |-> prev.subcat,
     new_cat |-> cat, new_subcat |-> subcat, score |-> score]

\* what the terminal shows of a finished invocation
line(symbol, outcome, picked) ==
    [symbol |-> symbol, outcome |-> outcome, cat |-> picked.cat, subcat |-> picked.subcat]

----------------------------------------------------------------------------
(* Inputs *)

NoArgs == [symbol |-> None, text |-> None, cat |-> None, subcat |-> None, aliases |-> <<>>]

NoBlock == [symbol |-> <<>>, body |-> <<>>, cat |-> None, subcat |-> None, aliases |-> <<>>]

NoResult == [kind |-> "none"]

NoSel == [cat |-> None, subcat |-> None, score |-> 0]

\* the server processes that share sm.db
Workers == {"w1", "w2"}

\* a server process that is handling no request
NoTx == [pc |-> "idle", args |-> NoArgs, ts |-> 0, prev |-> [cat |-> None, subcat |-> None],
         existed |-> FALSE, pend |-> [texts |-> <<>>, aliases |-> <<>>],
         result |-> NoResult, resp |-> NoResult]

\* taxonomy and aliases of the direct save requests
SaveMeta ==
    { [cat |-> None, subcat |-> None, aliases |-> <<>>],
      [cat |-> Some(<<"k">>), subcat |-> Some(<<"s">>), aliases |-> <<>>],
      [cat |-> Some(<<"k">>), subcat |-> None, aliases |-> << <<"b">> >>],
      [cat |-> None, subcat |-> None, aliases |-> << <<" ", "n">>, <<" ">> >>],
      [cat |-> None, subcat |-> Some(<<"s">>), aliases |-> << <<"a", "/", "b">> >>] }

\* save requests that SaveArgs does not accept: symbol or text missing or empty, symbol,
\* cat or subcat over its length, an alias that is not a string
BadSaveInputs ==
    { [symbol |-> Some(<<>>), text |-> Some(<<"x">>), cat |-> None, subcat |-> None,
       aliases |-> <<>>],
      [symbol |-> Some(<<"a">>), text |-> Some(<<"x">>),
       cat |-> Some(Rep("k", CatMaxLen + 1)), subcat |-> None, aliases |-> <<>>],
      [symbol |-> None, text |-> Some(<<"x">>), cat |-> None, subcat |-> None,
       aliases |-> << <<"c">> >>],
      [symbol |-> Some(<<"a">>), text |-> None, cat |-> Some(<<"m">>), subcat |-> None,
       aliases |-> <<>>],
      [symbol |-> Some(<<"b">>), text |-> Some(<<>>), cat |-> Some(<<"m">>),
       subcat |-> Some(<<"s">>), aliases |-> << <<"c">> >>],
      [symbol |-> Some(Rep("a", SymbolMaxLen + 1)), text |-> Some(<<"x">>), cat |-> None,
       subcat |-> None, aliases |-> <<>>],
      [symbol |-> Some(<<"a">>), text |-> Some(<<"y">>), cat |-> Some(<<"m">>),
       subcat |-> Some(Rep("s", SubcatMaxLen + 1)), aliases |-> << <<"c">> >>],
      [symbol |-> Some(<<"b">>), text |-> Some(<<"x">>), cat |-> Some(<<"m">>),
       subcat |-> None, aliases |-> << <<"c">>, JsonNull >>] }

\* the direct save requests: every symbol and body with every SaveMeta, and the
\* requests SaveArgs does not accept
SaveInputs ==
    { [symbol |-> Some(sy), text |-> Some(bd), cat |-> m.cat, subcat |-> m.subcat,
       aliases |-> m.aliases] :
         sy \in {<<"a">>, <<"b">>, <<"a", "/", "b">>}, bd \in {<<"x">>, <<"y">>},
         m \in SaveMeta }
    \cup BadSaveInputs

\* the names read back, and a uri without a scheme
ReadNames == {<<"a">>, <<"b">>, <<"a", "/", "b">>, <<"n">>, <<" ", "n">>}

ReadUris == {uri_of(n) : n \in ReadNames} \cup {<<"s", "m", "/", "a">>}

\* the DEFINE blocks the client is run on
Blocks ==
    { [symbol |-> <<"a">>, body |-> <<"x">>, cat |-> None, subcat |-> None,
       aliases |-> <<>>],
      [symbol |-> <<"b">>, body |-> <<"y">>, cat |-> None, subcat |-> None,
       aliases |-> << <<"c">> >>],
      [symbol |-> <<"b">>, body |-> <<"x">>, cat |-> Some(<<"k">>), subcat |-> Some(<<"s">>),
       aliases |-> <<>>],
      [symbol |-> <<"e">>, body |-> <<"x">>, cat |-> None, subcat |-> None,
       aliases |-> <<>>] }

\* what the user types at the apply prompt
Answers == {<<>>, <<"Y">>, <<"n">>, <<"q">>, <<"u">>, <<"e">>}

\* what the user types at the two edit prompts
Edits ==
    { [cat |-> <<>>, subcat |-> <<>>],
      [cat |-> <<" ", "m">>, subcat |-> <<>>],
      [cat |-> Rep("m", CatMaxLen + 1), subcat |-> <<>>] }

NoEdit == [cat |-> <<>>, subcat |-> <<>>]

NoInput == [answer |-> <<>>, cat |-> <<>>, subcat |-> <<>>]

\* a bridge that has not been started
NoRun == [pc |-> "off", script |-> "", cap |-> 0, strict |-> FALSE, steps |-> 0, messages |-> <<>>,
          pending |-> <<>>, last |-> NoResult, out |-> "none", printed |-> <<>>]

\* a store holding one classified entry
SeedTexts ==
    <<"n">> :> [body |-> <<"x", " ", "y">>, cat |-> Some(<<"k">>), subcat |-> Some(<<"s">>),
                hash |-> sha256_text(<<"x", " ", "y">>), ts_created |-> 0, ts_updated |-> 0]

----------------------------------------------------------------------------
(* Actions: direct MCP requests *)

\* POST /mcp tools/call sm.texts.save
Save(args) ==
    /\ pc = "idle"
    /\ nsaves < MaxSaves
    /\ \E rows \in rows_after(texts, aliases, now, args) :
         LET r == mcp_save(texts, aliases, now, args, rows)
         IN  /\ texts' = r.texts
             /\ aliases' = r.aliases
             /\ resp' = r.resp
    /\ req' = [method |-> "save", args |-> args, uri |-> <<>>]
    /\ nsaves' = nsaves + 1
    /\ UNCHANGED <<now, client, tx, br>>

\* POST /mcp resources/read
Read(uri) ==
    /\ pc = "idle"
    /\ req' = [method |-> "read", args |-> NoArgs, uri |-> uri]
    /\ resp' = mcp_read(texts, aliases, uri)
    /\ UNCHANGED <<store, nsaves, client, tx, br>>

\* a second passes on the clock now_iso reads
Tick ==
    /\ now < MaxClock
    /\ now' = now + 1
    /\ UNCHANGED <<texts, aliases, direct, client, br>>

----------------------------------------------------------------------------
(* Actions: a save request handled by one of several server processes, statement by *)
(* statement; the processes see each other only through the committed tables and    *)
(* the write lock of the database                                                   *)

\* SaveArgs(**args), then the first lines of save_text: ts, and get_existing_meta on
\* its own connection
Begin(w, args) ==
    /\ tx[w].pc \in {"idle", "done"}
    /\ nsaves < MaxSaves
    /\ nsaves' = nsaves + 1
    /\ tx' = [tx EXCEPT ![w] =
                IF ~valid_args(args)
                THEN [NoTx EXCEPT !.pc = "done", !.args = args,
                                  !.resp = [kind |-> "fault", status |-> 500]]
                ELSE [NoTx EXCEPT !.pc = "meta", !.args = args, !.ts = now,
                                  !.prev = get_existing_meta(texts, Val(args.symbol))]]
    /\ UNCHANGED <<store, req, resp, client, br>>

\* SELECT 1 FROM texts WHERE symbol=? : existed
Check(w) ==
    /\ tx[w].pc = "meta"
    /\ tx' = [tx EXCEPT ![w].pc = "checked",
                         ![w].existed = Val(tx[w].args.symbol) \in DOMAIN texts]
    /\ UNCHANGED <<store, req, resp, nsaves, client, br>>

\* the UPDATE or the INSERT, which takes the write lock (and waits for it while another
\* process has uncommitted writes), and the alias loop; an INSERT of a symbol that has
\* an entry by now violates the PRIMARY KEY and raises
Write(w) ==
    /\ tx[w].pc = "checked"
    /\ \A o \in Workers \ {w} : tx[o].pc # "written"
    /\ LET args   == tx[w].args
           symbol == Val(args.symbol)
           row    == write_row(texts, symbol, Val(args.text), args.cat, args.subcat, tx[w].ts)
       IN  tx' = [tx EXCEPT ![w] =
                    IF ~tx[w].existed /\ symbol \in DOMAIN texts
                    THEN [@ EXCEPT !.pc = "done", !.resp = [kind |-> "fault", status |-> 500]]
                    ELSE [@ EXCEPT !.pc = "written",
                                   !.pend = [texts   |-> (symbol :> row) @@ texts,
                                             aliases |-> write_aliases(aliases, args.aliases,
                                                                       1, symbol)]]]
    /\ UNCHANGED <<store, req, resp, nsaves, client, br>>

\* conn.commit(), and the result save_text returns
Commit(w) ==
    /\ tx[w].pc = "written"
    /\ texts' = tx[w].pend.texts
    /\ aliases' = tx[w].pend.aliases
    /\ LET args   == tx[w].args
           symbol == Val(args.symbol)
       IN  tx' = [tx EXCEPT ![w].pc = "committed",
                            ![w].result = [status     |-> save_status(tx[w].existed),
                                           symbol     |-> symbol,
                                           hash       |-> sha256_text(Val(args.text)),
                                           ts_created |-> tx[w].pend.texts[symbol].ts_created,
                                           ts_updated |-> tx[w].ts,
                                           prev       |-> tx[w].prev]]
    /\ UNCHANGED <<now, req, resp, nsaves, client, br>>

\* back in mcp: the suggestions, computed from the tables as they are by now, and the
\* response
Respond(w) ==
    /\ tx[w].pc = "committed"
    /\ LET args == tx[w].args
           ask  == args.cat = None \/ args.subcat = None
       IN  \E rows \in (IF ask THEN scan_orders(texts) ELSE {<<>>}) :
             tx' = [tx EXCEPT ![w].pc = "done",
                              ![w].resp =
                                 [kind        |-> "result",
                                  result      |-> tx[w].result,
                                  suggestions |-> IF ask
                                                  THEN suggest_taxonomy(texts, rows,
                                                          Val(args.symbol), Val(args.text))
                                                  ELSE None]]
    /\ UNCHANGED <<store, req, resp, nsaves, client, br>>

----------------------------------------------------------------------------
(* Actions: the client's save command *)

\* cmd_save up to the prompt: the first save, then the pick of the suggestion
CmdSaveStart(b) ==
    /\ pc = "idle"
    /\ ninv < MaxInvocations
    /\ ninv' = ninv + 1
    /\ blk' = b
    /\ \E rows \in rows_after(texts, aliases, now, first_payload(b)) :
         LET r    == mcp_save(texts, aliases, now, first_payload(b), rows)
             pick == pick_top_suggestion(Val(r.resp.suggestions))
         IN  /\ texts' = r.texts
             /\ aliases' = r.aliases
             /\ rpcs' = << [args |-> first_payload(b), resp |-> r.resp] >>
             /\ result' = r.resp
             /\ IF r.resp.kind = "fault"
                THEN /\ printed' = Append(printed, line(b.symbol, "error", NoSel))
                     /\ pc' = "idle"
                     /\ sel' = NoSel
                ELSE IF r.resp.suggestions # None /\ ~(b.cat # None /\ b.subcat # None)
                        /\ (Truthy(pick.cat) \/ Truthy(pick.subcat))
                THEN /\ printed' = printed
                     /\ pc' = "prompt"
                     /\ sel' = pick
                ELSE /\ printed' = Append(printed, line(b.symbol, "saved", NoSel))
                     /\ pc' = "idle"
                     /\ sel' = NoSel
    /\ ans' = <<>>
    /\ stdin' = NoInput
    /\ UNCHANGED <<now, direct, last_apply, br>>

\* the 'u' branch of cmd_save
Undo ==
    LET last == load_last_apply(last_apply)
        args == rb_payload(Val(last), blk)
    IN  /\ UNCHANGED <<last_apply, sel>>
        /\ IF last = None
           THEN /\ printed' = Append(printed, line(blk.symbol, "nothing_to_undo", sel))
                /\ UNCHANGED <<texts, aliases, rpcs>>
           ELSE \E rows \in rows_after(texts, aliases, now, args) :
                  LET r == mcp_save(texts, aliases, now, args, rows)
                  IN  /\ texts' = r.texts
                      /\ aliases' = r.aliases
                      /\ rpcs' = Append(rpcs, [args |-> args, resp |-> r.resp])
                      /\ printed' = Append(printed, line(blk.symbol,
                             IF r.resp.kind = "fault" THEN "error" ELSE "undo", sel))

\* the 'y' branch of cmd_save, also reached from 'e' with the edited values
Apply(cat, subcat) ==
    LET args == apply_payload(blk, cat, subcat)
    IN  /\ sel' = [sel EXCEPT !.cat = cat, !.subcat = subcat]
        /\ \E rows \in rows_after(texts, aliases, now, args) :
             LET r == mcp_save(texts, aliases, now, args, rows)
             IN  /\ texts' = r.texts
                 /\ aliases' = r.aliases
                 /\ rpcs' = Append(rpcs, [args |-> args, resp |-> r.resp])
                 /\ IF r.resp.kind = "fault"
                    THEN /\ printed' = Append(printed, line(blk.symbol, "error", sel'))
                         /\ UNCHANGED last_apply
                    ELSE /\ printed' = Append(printed, line(blk.symbol, "applied", sel'))
                         /\ last_apply' = save_last_apply(
                               apply_record(blk, result.result.prev, cat, subcat, sel.score))

\* cmd_save from the prompt on: the answer typed, and what is typed when editing
Answer(typed, edit) ==
    /\ pc = "prompt"
    /\ pc' = "idle"
    /\ stdin' = [answer |-> typed, cat |-> edit.cat, subcat |-> edit.subcat]
    /\ LET a      == prompt_apply(sel.score, typed)
           edited == prompt_edit(sel.cat, sel.subcat, edit.cat, edit.subcat)
       IN  IF a = <<"u">> THEN ans' = a /\ Undo
           ELSE IF a = <<"e">> THEN ans' = <<"y">> /\ Apply(edited.cat, edited.subcat)
           ELSE IF a = <<"y">> THEN ans' = a /\ Apply(sel.cat, sel.subcat)
           ELSE /\ ans' = a
                /\ printed' = Append(printed, line(blk.symbol, "rejected", sel))
                /\ UNCHANGED <<texts, aliases, rpcs, last_apply, sel>>
    /\ UNCHANGED <<now, direct, blk, result, ninv, br>>

\* _pick_top_suggestion applied to the suggestions of a response
PickTop ==
    /\ pc = "idle"
    /\ ninv = 0
    /\ result.kind = "result"
    /\ result.suggestions # None
    /\ ninv' = 1
    /\ sel' = pick_top_suggestion(Val(result.suggestions))
    /\ UNCHANGED <<store, direct, last_apply, pc, blk, result, stdin, ans, rpcs, printed, br>>

----------------------------------------------------------------------------
(* The tool-calling bridges: MCP2genericLLM.py and ollama_smMCP.py *)

MAX_STEPS == 8

OllamaMaxSteps == 5

\* the number of turns of the tool loop of a bridge script
max_steps(script) == IF script = "MCP2genericLLM" THEN MAX_STEPS ELSE OllamaMaxSteps

\* a message of the conversation
message(role, calls, id, name, content) ==
    [role |-> role, calls |-> calls, id |-> id, name |-> name, content |-> content]

\* a tool call as the model issues it
tool_call(id, name, args) == [id |-> id, name |-> name, args |-> args]

\* exec_tool_call (and the dispatch of ollama_smMCP.run) once the request got through:
\* the tables afterwards and the result; a result of kind "fault" is an exception, the
\* one MCP.rpc raises for an HTTP error status (status 0: the KeyError of a get
\* without a symbol); kind "error" is the payload for a tool that is not known
exec_tool_call(t, al, ts, tc, rows) ==
    IF tc.name = "sm_save"
    THEN LET r == mcp_save(t, al, ts, tc.args, rows)
         IN  [texts |-> r.texts, aliases |-> r.aliases, res |-> r.resp]
    ELSE IF tc.name = "sm_get"
    THEN [texts |-> t, aliases |-> al,
          res |-> IF tc.args.symbol = None THEN [kind |-> "fault", status |-> 0]
                  ELSE mcp_read(t, al, uri_of(Val(tc.args.symbol)))]
    ELSE [texts |-> t, aliases |-> al, res |-> [kind |-> "error", status |-> 0]]

\* the rows the suggester's SELECT can return while a tool call is executed
rows_of_call(t, al, ts, tc) ==
    IF tc.name = "sm_save" THEN rows_after(t, al, ts, tc.args) ELSE {<<>>}

\* run_loop up to the first chat request
RunLoop(script, strict_get) ==
    /\ br.pc = "off"
    /\ br' = [NoRun EXCEPT !.pc = "chat", !.script = script, !.cap = max_steps(script),
                           !.strict = strict_get,
                           !.messages = <<message("user", <<>>, "", "", NoResult)>>]
    /\ UNCHANGED <<store, direct, client>>

\* llm.chat fails: the exception ends the run
ChatFails ==
    /\ br.pc = "chat"
    /\ br.steps < br.cap
    /\ br' = [br EXCEPT !.pc = "done", !.steps = @ + 1, !.out = "transport"]
    /\ UNCHANGED <<store, direct, client>>

\* one chat-completion request and the message it returns: the final answer, or tool
\* calls to execute
Chat(tool_calls) ==
    /\ br.pc = "chat"
    /\ br.steps < br.cap
    /\ br' = IF tool_calls = <<>>
             THEN [br EXCEPT !.pc = "done", !.steps = @ + 1, !.out = "final",
                             !.printed = <<"content">>]
             ELSE [br EXCEPT !.pc = "tools", !.steps = @ + 1, !.pending = tool_calls,
                             !.messages = Append(@, message("assistant", tool_calls, "", "",
                                                            NoResult))]
    /\ UNCHANGED <<store, direct, client>>

\* the request of a tool call does not get through: the exception ends the run
ToolCallFails ==
    /\ br.pc = "tools"
    /\ br' = [br EXCEPT !.pc = "done", !.out = "transport", !.pending = Tail(@),
                        !.last = [kind |-> "transport"]]
    /\ UNCHANGED <<store, direct, client>>

\* the next tool call of the turn is executed; after the last one of the last turn the
\* loop is left and run_loop raises
ToolCall ==
    /\ br.pc = "tools"
    /\ LET tc == Head(br.pending)
       IN  \E rows \in rows_of_call(texts, aliases, now, tc) :
             LET r    == exec_tool_call(texts, aliases, now, tc, rows)
                 rest == Tail(br.pending)
             IN  /\ texts' = r.texts
                 /\ aliases' = r.aliases
                 /\ br' = IF r.res.kind = "fault"
                          THEN [br EXCEPT !.pc = "done", !.out = "fault", !.pending = rest,
                                          !.last = r.res]
                          ELSE IF br.strict /\ tc.name = "sm_get"
                          THEN [br EXCEPT !.pc = "done", !.out = "strict", !.pending = rest,
                                          !.last = r.res, !.printed = <<r.res.text>>]
                          ELSE [br EXCEPT
                                  !.pc = IF rest # <<>> THEN "tools"
                                         ELSE IF br.steps < br.cap THEN "chat" ELSE "done",
                                  !.out = IF rest = <<>> /\ br.steps >= br.cap
                                          THEN "cap" ELSE "none",
                                  !.pending = rest,
                                  !.last = r.res,
                                  !.messages = Append(@, message("tool", <<>>, tc.id,
                                                                 tc.name, r.res))]
    /\ UNCHANGED <<now, direct, client>>

----------------------------------------------------------------------------
(* Specifications *)

InitClient ==
    /\ pc = "idle"
    /\ blk = NoBlock
    /\ result = NoResult
    /\ sel = NoSel
    /\ stdin = NoInput
    /\ ans = <<>>
    /\ rpcs = <<>>
    /\ printed = <<>>
    /\ ninv = 0

InitDirect ==
    /\ req = [method |-> "none", args |-> NoArgs, uri |-> <<>>]
    /\ resp = NoResult
    /\ nsaves = 0
    /\ tx = [w \in Workers |-> NoTx]
    /\ br = NoRun

\* the store as init_db creates it, and the direct requests
Init ==
    /\ texts = <<>>
    /\ aliases = <<>>
    /\ now = 0
    /\ last_apply = [kind |-> "absent"]
    /\ InitDirect
    /\ InitClient

Next ==
    \/ \E args \in SaveInputs : Save(args)
    \/ \E uri \in ReadUris : Read(uri)

Spec == Init /\ [][Next]_vars

\* a store that already holds a classified entry, and the client run on it
InitFlow ==
    /\ texts = SeedTexts
    /\ aliases = <<>>
    /\ now = 0
    /\ last_apply \in {[kind |-> "absent"], [kind |-> "corrupt"]}
    /\ InitDirect
    /\ InitClient

NextFlow ==
    \/ \E b \in Blocks : CmdSaveStart(b)
    \/ \E typed \in Answers \ {<<"e">>} : Answer(typed, NoEdit)
    \/ \E edit \in Edits : Answer(<<"e">>, edit)

SpecFlow == InitFlow /\ [][NextFlow]_vars

\* text made of the words ws, one space between them
RECURSIVE Words(_)
Words(ws) == IF ws = <<>> THEN <<>>
             ELSE IF Len(ws) = 1 THEN Head(ws)
             ELSE Head(ws) \o <<" ">> \o Words(Tail(ws))

\* an entry as a save of (body, cat, subcat) at time 0 leaves it
Row(body, cat, subcat) ==
    [body |-> body, cat |-> cat, subcat |-> subcat, hash |-> sha256_text(body),
     ts_created |-> 0, ts_updated |-> 0]

\* stores with an entry p classified k/s and an entry q classified m/s; p shares the
\* words e and x with the text "e x" among its 7, q among its 12, 13 or 14
ScoreSeeds ==
    { (<<"p">> :> Row(Words(<< <<"e">>, <<"x">>, <<"a">>, <<"b">>, <<"c">>, <<"d">> >>),
                      Some(<<"k">>), Some(<<"s">>)))
      @@ (<<"q">> :> Row(Words(<< <<"e">>, <<"x">> >> \o more), Some(<<"m">>), Some(<<"s">>))) :
        more \in { [i \in 1..n |-> <<"f", <<"0", "1", "2", "3", "4", "5", "6", "7", "8",
                                            "9", "_">>[i]>>] : n \in {9, 10, 11} } }

\* the DEFINE blocks the client is run on over ScoreSeeds
ScoreBlocks ==
    { [symbol |-> <<"e">>, body |-> <<"x">>, cat |-> None, subcat |-> None, aliases |-> <<>>],
      [symbol |-> <<"e">>, body |-> <<"x", " ", "y">>, cat |-> None, subcat |-> None,
       aliases |-> <<>>] }

\* the client run on a store whose suggestions score around the default threshold
InitDefault ==
    /\ texts \in ScoreSeeds
    /\ aliases = <<>>
    /\ now = 0
    /\ last_apply = [kind |-> "absent"]
    /\ InitDirect
    /\ InitClient

NextDefault ==
    \/ \E b \in ScoreBlocks : CmdSaveStart(b)
    \/ \E typed \in {<<>>, <<" ">>, <<"n">>} : Answer(typed, NoEdit)

SpecDefault == InitDefault /\ [][NextDefault]_vars

\* n words that are not among the words of the texts saved
Filler(n) == [i \in 1..n |-> << <<"0", "1", "2", "3", "4", "5", "6", "7", "8", "9", "_">>[i] >>]

\* the stores the suggester is run on:
\*   no entry with a category or a subcategory (one has the empty string as category);
\*   two neighbors k/s at different similarities and one m/t below the threshold;
\*   one neighbor whose category holds the separator of the pair keys;
\*   four neighbors of four categories at the same similarity;
\*   neighbors at similarity 1/10 (k/s), 1/11 (m/t) and 1/3 (m/t) to the text "e x";
\*   one neighbor with a category only and one with a subcategory only
SuggestSeeds ==
    { (<<"p">> :> Row(<<"e", " ", "x">>, None, None))
         @@ (<<"q">> :> Row(<<"x">>, Some(<<>>), None)),
      (<<"p">> :> Row(<<"e", " ", "x">>, Some(<<"k">>), Some(<<"s">>)))
         @@ (<<"q">> :> Row(<<"x", " ", "y">>, Some(<<"k">>), Some(<<"s">>)))
         @@ (<<"r">> :> Row(Words(<< <<"x">> >> \o Filler(9)), Some(<<"m">>), Some(<<"t">>))),
      (<<"p">> :> Row(<<"e", " ", "x">>, Some(<<"k", ":", ":", "m">>), Some(<<"s">>))),
      (<<"p">> :> Row(<<"x">>, Some(<<"k">>), Some(<<"s">>)))
         @@ (<<"q">> :> Row(<<"x">>, Some(<<"l">>), Some(<<"s">>)))
         @@ (<<"r">> :> Row(<<"x">>, Some(<<"m">>), Some(<<"s">>)))
         @@ (<<"t">> :> Row(<<"x">>, Some(<<"n">>), Some(<<"s">>))),
      (<<"p">> :> Row(Words(<< <<"x">> >> \o Filler(7)), Some(<<"k">>), Some(<<"s">>)))
         @@ (<<"q">> :> Row(Words(<< <<"x">> >> \o Filler(8)), Some(<<"m">>), Some(<<"t">>)))
         @@ (<<"r">> :> Row(<<"x">>, Some(<<"m">>), Some(<<"t">>))),
      (<<"p">> :> Row(<<"x">>, Some(<<"k">>), None))
         @@ (<<"q">> :> Row(<<"x">>, None, Some(<<"s">>))) }

\* the saves sent to those stores
SuggestInputs ==
    { [symbol |-> Some(<<"e">>), text |-> Some(<<"x">>), cat |-> None, subcat |-> None,
       aliases |-> <<>>],
      [symbol |-> Some(<<"e">>), text |-> Some(<<"x", " ", "y">>), cat |-> None,
       subcat |-> None, aliases |-> <<>>],
      [symbol |-> Some(<<"e">>), text |-> Some(<<"x">>), cat |-> Some(<<"k">>),
       subcat |-> None, aliases |-> <<>>],
      [symbol |-> Some(<<"p">>), text |-> Some(<<"x">>), cat |-> None, subcat |-> None,
       aliases |-> <<>>],
      [symbol |-> Some(<<"e">>), text |-> Some(<<"x">>), cat |-> Some(<<"k">>),
       subcat |-> Some(<<"s">>), aliases |-> <<>>] }

\* saves sent to a store that already holds entries
InitSuggest ==
    /\ texts \in SuggestSeeds
    /\ aliases = <<>>
    /\ now = 0
    /\ last_apply = [kind |-> "absent"]
    /\ InitDirect
    /\ InitClient

NextSuggest == \E args \in SuggestInputs : Save(args)

SpecSuggest == InitSuggest /\ [][NextSuggest]_vars

\* the save requests the server processes get: three for one symbol, one for another,
\* one that SaveArgs does not accept
RaceInputs ==
    { [symbol |-> Some(<<"a">>), text |-> Some(<<"x">>), cat |-> None, subcat |-> None,
       aliases |-> <<>>],
      [symbol |-> Some(<<"a">>), text |-> Some(<<"y">>), cat |-> Some(<<"k">>),
       subcat |-> Some(<<"s">>), aliases |-> << <<"b">> >>],
      [symbol |-> Some(<<"a">>), text |-> Some(<<"x">>), cat |-> Some(<<"m">>),
       subcat |-> None, aliases |-> <<>>],
      [symbol |-> Some(<<"b">>), text |-> Some(<<"y">>), cat |-> None, subcat |-> None,
       aliases |-> << <<"b">> >>],
      [symbol |-> Some(<<>>), text |-> Some(<<"x">>), cat |-> None, subcat |-> None,
       aliases |-> <<>>] }

\* server processes on an empty store or on one that has the entry a
InitRace ==
    /\ texts \in {<<>>, <<"a">> :> Row(<<"x">>, Some(<<"k">>), Some(<<"s">>))}
    /\ aliases = <<>>
    /\ now = 0
    /\ last_apply = [kind |-> "absent"]
    /\ InitDirect
    /\ InitClient

NextRace ==
    \E w \in Workers :
        \/ \E args \in RaceInputs : Begin(w, args)
        \/ Check(w)
        \/ Write(w)
        \/ Commit(w)
        \/ Respond(w)

SpecRace == InitRace /\ [][NextRace]_vars

\* the tool calls the model issues in one turn: none (the final answer); a save; a get;
\* a save with a category and an alias, then a get of the alias; a tool that is not
\* known, then a save that SaveArgs does not accept; a get without a symbol
Turns ==
    { <<>>,
      << tool_call("c1", "sm_save", [NoArgs EXCEPT !.symbol = Some(<<"a">>),
                                                   !.text = Some(<<"x">>)]) >>,
      << tool_call("c1", "sm_get", [NoArgs EXCEPT !.symbol = Some(<<"a">>)]) >>,
      << tool_call("c1", "sm_save", [NoArgs EXCEPT !.symbol = Some(<<"b">>),
                                                   !.text = Some(<<"x", " ", "y">>),
                                                   !.cat = Some(<<"k">>),
                                                   !.aliases = << <<"n">> >>]),
         tool_call("c2", "sm_get", [NoArgs EXCEPT !.symbol = Some(<<"n">>)]) >>,
      << tool_call("c1", "sm_del", [NoArgs EXCEPT !.symbol = Some(<<"a">>)]),
         tool_call("c2", "sm_save", [NoArgs EXCEPT !.symbol = Some(<<>>),
                                                   !.text = Some(<<"x">>)]) >>,
      << tool_call("c1", "sm_get", NoArgs) >> }

\* the bridge scripts and their modes: only MCP2genericLLM has --strict-get
Scripts == {<<"MCP2genericLLM", FALSE>>, <<"MCP2genericLLM", TRUE>>, <<"ollama_smMCP", FALSE>>}

\* one run of a bridge on an empty store, the model answering each chat request with
\* any of Turns
InitBridge == Init

NextBridge ==
    \/ \E sc \in Scripts : RunLoop(sc[1], sc[2])
    \/ ChatFails
    \/ \E tool_calls \in Turns : Chat(tool_calls)
    \/ ToolCallFails
    \/ ToolCall

\* every request of the bridge has a timeout and the script does nothing else, so a
\* run that can take a step takes one
SpecBridge == InitBridge /\ [][NextBridge]_vars /\ WF_vars(NextBridge)

\* the scores of one returned item and of two: shares that sum to 1
PickScores == {<<10000>>, <<5000, 5000>>, <<6500, 3500>>, <<7000, 3000>>}

\* the categories of the neighbors; one begins with the separator of the pair keys
PickCatValues == {<<"k">>, <<"m">>, <<":", ":", "k">>}

\* the lists top_n can return for one or two categories
PickCats ==
    {[i \in 1..Len(x[1]) |-> [value |-> x[2][i], score |-> x[1][i]]] :
        x \in {y \in PickScores \X ({<<v>> : v \in PickCatValues}
                                     \cup {q \in PickCatValues \X PickCatValues :
                                              q[1] # q[2]}) : Len(y[1]) = Len(y[2])}}

\* the (category, subcategory) of the neighbors that have both
PickPairValues == PickCatValues \X {<<"s">>, <<"t">>}

\* a pair as suggest_taxonomy returns it: the key cat::subcat split at its first "::"
pair_item(cat, subcat, score) ==
    LET k  == pair_key(cat, subcat)
        at == find(k, <<":", ":">>, 1)
    IN  [cat |-> SubSeq(k, 1, at - 1), value |-> SubSeq(k, at + 2, Len(k)), score |-> score]

\* the lists of pairs it can return for no, one or two pairs
PickPairs ==
    {<<>>}
    \cup {[i \in 1..Len(x[1]) |-> pair_item(x[2][i][1], x[2][i][2], x[1][i])] :
            x \in {y \in PickScores \X ({<<v>> : v \in PickPairValues}
                                         \cup {q \in PickPairValues \X PickPairValues :
                                                  q[1] # q[2]}) : Len(y[1]) = Len(y[2])}}

\* the categories the pairs of a list were made from
pair_cats(pairs) ==
    {IF pairs[i].cat = <<>> THEN <<":", ":", "k">> ELSE pairs[i].cat : i \in 1..Len(pairs)}

\* responses to a save that carry suggestions
PickResults ==
    { [kind        |-> "result",
       result      |-> save_text(<<>>, <<>>, 0, [NoArgs EXCEPT !.symbol = Some(<<"e">>),
                                                              !.text = Some(<<"x">>)]).result,
       suggestions |-> Some([cat |-> x[1], subcat |-> x[2], neighbors |-> <<>>])] :
         x \in {y \in PickCats \X PickPairs :
                  pair_cats(y[2]) \subseteq {y[1][i].value : i \in 1..Len(y[1])}} }

\* the selection step on its own, applied to any of those responses: the ones the
\* server returns for neighbors of one or two categories
InitPick ==
    /\ texts = <<>>
    /\ aliases = <<>>
    /\ now = 0
    /\ last_apply = [kind |-> "absent"]
    /\ InitDirect
    /\ pc = "idle"
    /\ blk = NoBlock
    /\ result \in PickResults
    /\ sel = NoSel
    /\ stdin = NoInput
    /\ ans = <<>>
    /\ rpcs = <<>>
    /\ printed = <<>>
    /\ ninv = 0

NextPick == PickTop

SpecPick == InitPick /\ [][NextPick]_vars

\* stores for DEFINE blocks that supply one of category and subcategory: two
\* neighbors m/t; one neighbor k/s; one neighbor with the category k only
PartialSeeds ==
    { (<<"p">> :> Row(<<"x">>, Some(<<"m">>), Some(<<"t">>)))
         @@ (<<"q">> :> Row(<<"x", " ", "y">>, Some(<<"m">>), Some(<<"t">>))),
      (<<"p">> :> Row(<<"x">>, Some(<<"k">>), Some(<<"s">>))),
      (<<"p">> :> Row(<<"x">>, Some(<<"k">>), None)) }

\* a block with a category and no subcategory, one with a subcategory and no category
PartialBlocks ==
    { [symbol |-> <<"e">>, body |-> <<"x">>, cat |-> Some(<<"k">>), subcat |-> None,
       aliases |-> <<>>],
      [symbol |-> <<"e">>, body |-> <<"x">>, cat |-> None, subcat |-> Some(<<"u">>),
       aliases |-> <<>>] }

\* the client run on blocks that supply one of category and subcategory
InitPartial ==
    /\ texts \in PartialSeeds
    /\ aliases = <<>>
    /\ now = 0
    /\ last_apply = [kind |-> "absent"]
    /\ InitDirect
    /\ InitClient

NextPartial ==
    \/ \E b \in PartialBlocks : CmdSaveStart(b)
    \/ \E typed \in {<<>>, <<"y">>, <<"n">>} : Answer(typed, NoEdit)

SpecPartial == InitPartial /\ [][NextPartial]_vars

\* the saves sent while the clock advances: two of one symbol, one of another
ClockInputs ==
    { [NoArgs EXCEPT !.symbol = Some(<<"a">>), !.text = Some(<<"x">>)],
      [NoArgs EXCEPT !.symbol = Some(<<"a">>), !.text = Some(<<"y">>), !.cat = Some(<<"k">>)],
      [NoArgs EXCEPT !.symbol = Some(<<"b">>), !.text = Some(<<"x">>)] }

\* saves at any times of a clock that does not go back, on an empty store and on one
\* that holds an entry saved at time 0
InitClock ==
    /\ texts \in {<<>>, <<"a">> :> Row(<<"x">>, Some(<<"k">>), Some(<<"s">>))}
    /\ aliases = <<>>
    /\ now = 0
    /\ last_apply = [kind |-> "absent"]
    /\ InitDirect
    /\ InitClient

NextClock ==
    \/ \E args \in ClockInputs : Save(args)
    \/ Tick

SpecClock == InitClock /\ [][NextClock]_vars

----------------------------------------------------------------------------
(* Claims about the store, checked under Spec *)

\* the last direct request was a save and the server accepted it
SaveAccepted == req.method = "save" /\ resp.kind = "result"

\* the body a read of uri returns, None when the read fails
read_body(uri) ==
    LET r == mcp_read(texts, aliases, uri)
    IN  IF r.kind = "contents" THEN Some(r.text) ELSE None

\* C1: right after a save of (symbol, body) that the server accepted, a read of that
\* symbol returns exactly body.
C1_SaveThenGet ==
    SaveAccepted => read_body(uri_of(Val(req.args.symbol))) = Some(Val(req.args.text))

\* C2 as stated: right after an accepted save(symbol, body, aliases=[alias]), a read of
\* the alias returns the same body as a read of the symbol.
C2_AliasReadsAsSymbol ==
    (SaveAccepted /\ Len(req.args.aliases) = 1) =>
        read_body(uri_of(req.args.aliases[1])) = read_body(uri_of(Val(req.args.symbol)))

\* C2 amended: right after an accepted save, every supplied alias that is not blank is
\* mapped, stripped, to the saved symbol, and a read whose uri ends in the stripped alias
\* returns the body of the entry of that name when there is one and else the saved body.
C2_AliasResolves ==
    SaveAccepted =>
        \A i \in 1..Len(req.args.aliases) :
            LET a == strip(req.args.aliases[i])
            IN  a # <<>> =>
                  /\ a \in DOMAIN aliases
                  /\ aliases[a] = Val(req.args.symbol)
                  /\ \A uri \in ReadUris :
                       last_segment(uri) = a /\ contains(uri, <<":", "/", "/">>) =>
                          read_body(uri) = IF a \in DOMAIN texts THEN Some(texts[a].body)
                                           ELSE Some(Val(req.args.text))

\* C2 witness: a save supplied an alias that names no entry, and a read was asked for it
C2_Witness ==
    /\ SaveAccepted
    /\ req.args.aliases # <<>>
    /\ strip(req.args.aliases[1]) \notin DOMAIN texts
    /\ uri_of(strip(req.args.aliases[1])) \in ReadUris
    /\ read_body(uri_of(strip(req.args.aliases[1]))) = Some(Val(req.args.text))

\* C3: the answer to a read of a well-formed uri is decided by its last path segment:
\* the body of the entry of that name if there is one, else the body of the entry the
\* alias of that name maps to, else 404.
C3_ResolutionOrder ==
    (req.method = "read" /\ contains(req.uri, <<":", "/", "/">>)) =>
        LET name == last_segment(req.uri)
        IN  IF name \in DOMAIN texts
            THEN resp.kind = "contents" /\ resp.text = texts[name].body
            ELSE IF name \in DOMAIN aliases
            THEN /\ aliases[name] \in DOMAIN texts
                 /\ resp.kind = "contents"
                 /\ resp.text = texts[aliases[name]].body
            ELSE resp.kind = "fault" /\ resp.status = 404

\* C3 witness: a read of a name that is an entry and also an alias of another entry
\* with another body
C3_Witness ==
    /\ req.method = "read"
    /\ contains(req.uri, <<":", "/", "/">>)
    /\ last_segment(req.uri) \in DOMAIN texts
    /\ last_segment(req.uri) \in DOMAIN aliases
    /\ aliases[last_segment(req.uri)] # last_segment(req.uri)
    /\ texts[aliases[last_segment(req.uri)]].body # texts[last_segment(req.uri)].body
    /\ resp.kind = "contents"

\* a step that is an accepted direct save
SaveStep == nsaves' = nsaves + 1 /\ resp'.kind = "result"

\* C4: the prev of a save's result is the cat and subcat the symbol had before the
\* save, and None, None when the symbol had no entry.
C4_PrevIsPreWrite ==
    [][SaveStep =>
        LET symbol == Val(req'.args.symbol)
        IN  resp'.result.prev =
              IF symbol \in DOMAIN texts
              THEN [cat |-> texts[symbol].cat, subcat |-> texts[symbol].subcat]
              ELSE [cat |-> None, subcat |-> None]]_vars

\* C4 witness: a save without taxonomy returned the taxonomy it replaced
C4_Witness ==
    /\ SaveAccepted
    /\ req.args.cat = None
    /\ req.args.subcat = None
    /\ resp.result.prev.cat # None
    /\ resp.result.prev.subcat # None

\* C5: after a save the entry holds exactly the body, cat and subcat supplied, and no
\* step removes an entry.
C5_FullReplace ==
    [][/\ DOMAIN texts \subseteq DOMAIN texts'
       /\ SaveStep =>
            LET symbol == Val(req'.args.symbol)
            IN  /\ symbol \in DOMAIN texts'
                /\ texts'[symbol].body = Val(req'.args.text)
                /\ texts'[symbol].cat = req'.args.cat
                /\ texts'[symbol].subcat = req'.args.subcat]_vars

\* C5 witness: a save that omits the subcat replaced an entry that had one
C5_Witness ==
    /\ SaveAccepted
    /\ req.args.cat # None
    /\ req.args.subcat = None
    /\ resp.result.status = "updated"
    /\ resp.result.prev.subcat # None
    /\ texts[Val(req.args.symbol)].subcat = None

----------------------------------------------------------------------------
(* Claims about the apply workflow, checked under SpecFlow *)

\* the step of cmd_save that acts on the answer a
Decides(a) == pc = "prompt" /\ pc' = "idle" /\ ans' = a

\* the selection an Accept or an Edit is to apply: what was picked from the suggestions
\* of the first save, each field replaced by what was typed for it unless that is blank
wanted(first, input) ==
    LET picked  == pick_top_suggestion(Val(first.resp.suggestions))
        editing == lower(strip(input.answer)) = <<"e">>
    IN  [cat    |-> IF editing /\ strip(input.cat) # <<>>
                    THEN Some(strip(input.cat)) ELSE picked.cat,
         subcat |-> IF editing /\ strip(input.subcat) # <<>>
                    THEN Some(strip(input.subcat)) ELSE picked.subcat,
         score  |-> picked.score]

\* the ApplyRecord the claim describes
wanted_record(symbol, first, w) ==
    [kind |-> "json",
     data |-> [symbol |-> symbol,
               prev_cat |-> first.resp.result.prev.cat,
               prev_subcat |-> first.resp.result.prev.subcat,
               new_cat |-> w.cat, new_subcat |-> w.subcat, score |-> w.score]]

\* C6 as stated: once an Accept or an Edit is done, exactly one save followed the first
\* one, with its symbol, body and aliases and the selection as taxonomy, the entry has
\* the selection as taxonomy, and the ApplyRecord is {symbol, the first save's prev,
\* the selection, the combined score}.
C6_AcceptApplies ==
    (pc = "idle" /\ ans = <<"y">>) =>
        LET w == wanted(rpcs[1], stdin)
        IN  /\ Len(rpcs) = 2
            /\ rpcs[2].args = [rpcs[1].args EXCEPT !.cat = w.cat, !.subcat = w.subcat]
            /\ texts[blk.symbol].cat = w.cat
            /\ texts[blk.symbol].subcat = w.subcat
            /\ last_apply = wanted_record(blk.symbol, rpcs[1], w)

\* C6 amended: an Accept or an Edit sends exactly one follow-up save, with the symbol,
\* body and aliases of the first and the selection as taxonomy; if the selection is
\* within the length bounds of SaveArgs the entry then has the selection as taxonomy and
\* the ApplyRecord is {symbol, the first save's prev, the selection, the combined
\* score}; if it is not, the save fails and the store and the record stay as they were.
C6_AcceptAppliesWhenValid ==
    [][Decides(<<"y">>) =>
        LET w == wanted(rpcs[1], stdin')
            fits == /\ w.cat # None => Len(Val(w.cat)) <= CatMaxLen
                    /\ w.subcat # None => Len(Val(w.subcat)) <= SubcatMaxLen
        IN  /\ Len(rpcs) = 1
            /\ Len(rpcs') = 2
            /\ rpcs'[1] = rpcs[1]
            /\ rpcs'[2].args = [rpcs[1].args EXCEPT !.cat = w.cat, !.subcat = w.subcat]
            /\ IF fits
               THEN /\ rpcs'[2].resp.kind = "result"
                    /\ texts'[blk.symbol].cat = w.cat
                    /\ texts'[blk.symbol].subcat = w.subcat
                    /\ last_apply' = wanted_record(blk.symbol, rpcs[1], w)
               ELSE /\ rpcs'[2].resp.kind = "fault"
                    /\ texts' = texts
                    /\ aliases' = aliases
                    /\ last_apply' = last_apply]_vars

\* C6 witness: an Edit that replaced the category and left the subcategory blank was
\* applied over an entry that had a taxonomy before the first save
C6_Witness ==
    /\ pc = "idle"
    /\ ans = <<"y">>
    /\ stdin.answer = <<"e">>
    /\ strip(stdin.cat) = <<"m">>
    /\ texts[blk.symbol].cat = Some(<<"m">>)
    /\ texts[blk.symbol].subcat = Some(<<"s">>)
    /\ last_apply.kind = "json"
    /\ last_apply.data.symbol = blk.symbol
    /\ last_apply.data.new_cat = Some(<<"m">>)
    /\ last_apply.data.prev_cat = Some(<<"k">>)

\* the save an Undo sends for the record r: the last call of the invocation
reversal_sent(r) ==
    /\ Len(rpcs') = Len(rpcs) + 1
    /\ rpcs'[Len(rpcs')].args.symbol = Some(r.symbol)
    /\ rpcs'[Len(rpcs')].args.cat = r.prev_cat
    /\ rpcs'[Len(rpcs')].args.subcat = r.prev_subcat
    /\ rpcs'[Len(rpcs')].resp.kind = "result"

\* C7: an Undo with a record present saves the record's symbol with the record's
\* previous taxonomy and leaves the body stored for that symbol as it was.
C7_UndoKeepsBody ==
    [][(Decides(<<"u">>) /\ last_apply.kind = "json") =>
        LET r == last_apply.data
        IN  /\ reversal_sent(r)
            /\ texts'[r.symbol].cat = r.prev_cat
            /\ texts'[r.symbol].subcat = r.prev_subcat
            /\ texts'[r.symbol].body = texts[r.symbol].body]_vars

\* C8: an Undo leaves the ApplyRecord as it was, and with a record present the save it
\* sends is for the record's symbol with the record's previous taxonomy (so a second
\* Undo sends that save again).
C8_UndoKeepsRecord ==
    [][Decides(<<"u">>) =>
        /\ last_apply' = last_apply
        /\ last_apply.kind = "json" => reversal_sent(last_apply.data)]_vars

\* C8 witness: two invocations in a row ended in an Undo that sent its save
C8_Witness ==
    /\ Len(printed) >= 2
    /\ printed[Len(printed)].outcome = "undo"
    /\ printed[Len(printed) - 1].outcome = "undo"
    /\ last_apply.kind = "json"
    /\ last_apply.data.prev_cat # last_apply.data.new_cat

\* C9: an Undo with no readable record ends the invocation with "Nothing to undo.",
\* sends no save and leaves the store and the record file as they were.
C9_NothingToUndo ==
    [][(Decides(<<"u">>) /\ last_apply.kind # "json") =>
        /\ printed' = Append(printed, line(blk.symbol, "nothing_to_undo", sel))
        /\ rpcs' = rpcs
        /\ Len(rpcs) = 1
        /\ texts' = texts
        /\ aliases' = aliases
        /\ last_apply' = last_apply]_vars

\* C9 witness: an Undo was answered while the record file was unreadable
C9_Witness ==
    /\ pc = "idle"
    /\ ans = <<"u">>
    /\ last_apply.kind = "corrupt"
    /\ printed[Len(printed)].outcome = "nothing_to_undo"

\* C10: when the last three invocations were an Accept for A, an Accept for another
\* symbol B and an Undo chosen in an invocation for a symbol other than A, the record
\* is the one of B's Accept, B has the taxonomy that record calls previous and A still
\* has the taxonomy accepted for it.
C10_SingleSlot ==
    (pc = "idle" /\ Len(printed) >= 3) =>
        LET A == printed[Len(printed) - 2]
            B == printed[Len(printed) - 1]
            U == printed[Len(printed)]
        IN  ( /\ A.outcome = "applied"
              /\ B.outcome = "applied"
              /\ A.symbol # B.symbol
              /\ U.outcome = "undo"
              /\ U.symbol # A.symbol ) =>
                /\ last_apply.kind = "json"
                /\ last_apply.data.symbol = B.symbol
                /\ last_apply.data.new_cat = B.cat
                /\ last_apply.data.new_subcat = B.subcat
                /\ texts[B.symbol].cat = last_apply.data.prev_cat
                /\ texts[B.symbol].subcat = last_apply.data.prev_subcat
                /\ texts[A.symbol].cat = A.cat
                /\ texts[A.symbol].subcat = A.subcat

\* C10 witness: such three invocations, the Undo chosen in an invocation for a third
\* symbol
C10_Witness ==
    /\ pc = "idle"
    /\ Len(printed) >= 3
    /\ printed[Len(printed) - 2].outcome = "applied"
    /\ printed[Len(printed) - 1].outcome = "applied"
    /\ printed[Len(printed)].outcome = "undo"
    /\ printed[Len(printed) - 2].symbol # printed[Len(printed) - 1].symbol
    /\ printed[Len(printed)].symbol \notin
          {printed[Len(printed) - 2].symbol, printed[Len(printed) - 1].symbol}
    /\ texts[printed[Len(printed) - 2].symbol].cat # None

\* the answer typed at the apply prompt, as cmd_save compares it
typed_answer(input) == lower(strip(input.answer))

\* a step of cmd_save that ends the invocation on a Reject: an answer was typed that is
\* not accept, edit or undo, or the answer acted on is neither accept nor undo
Rejects ==
    /\ pc = "prompt"
    /\ pc' = "idle"
    /\ \/ typed_answer(stdin') \notin {<<>>, <<"y">>, <<"e">>, <<"u">>}
       \/ ans' \notin {<<"y">>, <<"u">>}

\* C11: on a Reject no save follows the first save of the invocation, the entry table
\* and the alias index stay as the first save left them, and the ApplyRecord is unchanged.
C11_RejectChangesNothing ==
    [][Rejects =>
        /\ Len(rpcs) = 1
        /\ rpcs' = rpcs
        /\ texts' = texts
        /\ aliases' = aliases
        /\ last_apply' = last_apply
        /\ printed' = Append(printed, line(blk.symbol, "rejected", sel))]_vars

\* C11 witness: an answer that is none of y, n, e, u was typed while a record of an
\* earlier Accept was in the file, and the invocation ended as rejected
C11_Witness ==
    /\ pc = "idle"
    /\ stdin.answer = <<"q">>
    /\ sel.score >= MinScore
    /\ Len(rpcs) = 1
    /\ printed[Len(printed)].outcome = "rejected"
    /\ last_apply.kind = "json"
    /\ last_apply.data.symbol # blk.symbol

----------------------------------------------------------------------------
(* Claims about the default answer, checked under SpecDefault *)

\* C12: when nothing is typed at the apply prompt, the selection is applied if the
\* combined score is at least 0.65 and the invocation ends as rejected otherwise.
C12_DefaultByScore ==
    [][(pc = "prompt" /\ pc' = "idle" /\ strip(stdin'.answer) = <<>>) =>
        IF sel.score >= 6500
        THEN /\ ans' = <<"y">>
             /\ Len(rpcs') = 2
             /\ rpcs'[2].args.cat = sel.cat
             /\ rpcs'[2].args.subcat = sel.subcat
             /\ printed' = Append(printed, line(blk.symbol, "applied", sel))
             /\ last_apply'.kind = "json"
             /\ last_apply'.data.score = sel.score
        ELSE /\ ans' = <<"n">>
             /\ rpcs' = rpcs
             /\ texts' = texts
             /\ last_apply' = last_apply
             /\ printed' = Append(printed, line(blk.symbol, "rejected", sel))]_vars

\* C12 witness: nothing was typed at a prompt showing a combined score of exactly 0.65
\* and the selection was applied
C12_Witness ==
    /\ pc = "idle"
    /\ strip(stdin.answer) = <<>>
    /\ sel.score = 6500
    /\ ans = <<"y">>
    /\ printed[Len(printed)].outcome = "applied"
    /\ texts[blk.symbol].cat = sel.cat

----------------------------------------------------------------------------
(* Claims about the suggester, checked under SpecSuggest *)

\* the last request was an accepted save that left out the category or the subcategory
SuggestAsked == SaveAccepted /\ (req.args.cat = None \/ req.args.subcat = None)

\* the words of the text of the last save
AskedWords == Range(tokenize(Val(req.args.symbol) \o <<" ">> \o Val(req.args.text), MaxTokens))

\* the words of the entry s
EntryWords(s) == Range(tokenize(s \o <<" ">> \o texts[s].body, MaxTokens))

\* the entries with a category or a subcategory whose Jaccard similarity to the text of
\* the last save is at least 1/10
Qualifying ==
    {s \in DOMAIN texts :
        /\ Truthy(texts[s].cat) \/ Truthy(texts[s].subcat)
        /\ AskedWords \cup EntryWords(s) # {}
        /\ 10 * Cardinality(AskedWords \cap EntryWords(s))
              >= Cardinality(AskedWords \cup EntryWords(s))}

\* C13: a save that omits category and subcategory, sent to a store in which no entry
\* has a category or a subcategory, returns no suggestions.
C13_NoTaxonomyNoSuggestions ==
    [][(/\ SaveStep
        /\ req'.args.cat = None
        /\ req'.args.subcat = None
        /\ \A s \in DOMAIN texts : ~Truthy(texts[s].cat) /\ ~Truthy(texts[s].subcat))
       => resp'.suggestions = None]_vars

\* C13 witness: such a save was answered without suggestions although an entry shares
\* words with its text, and no entry has a category or a subcategory
C13_Witness ==
    /\ SuggestAsked
    /\ req.args.cat = None
    /\ req.args.subcat = None
    /\ resp.suggestions = None
    /\ \A s \in DOMAIN texts : ~Truthy(texts[s].cat) /\ ~Truthy(texts[s].subcat)
    /\ \E s \in DOMAIN texts \ {Val(req.args.symbol)} : AskedWords \cap EntryWords(s) # {}

\* C14: when the qualifying neighbors of a save without taxonomy all have the same
\* category c and the same subcategory s, the suggestions are present, their first
\* category is c with score 1.0 and their first pair is (c, s) with score 1.0.
C14_SamePairScoresOne ==
    (/\ SuggestAsked
     /\ req.args.cat = None
     /\ req.args.subcat = None
     /\ Qualifying # {}
     /\ \A n \in Qualifying : Truthy(texts[n].cat) /\ Truthy(texts[n].subcat)
     /\ \A n1, n2 \in Qualifying :
           texts[n1].cat = texts[n2].cat /\ texts[n1].subcat = texts[n2].subcat)
    => LET n == CHOOSE n \in Qualifying : TRUE
           c == Val(texts[n].cat)
           sc == Val(texts[n].subcat)
       IN  /\ resp.suggestions # None
           /\ Val(resp.suggestions).cat # <<>>
           /\ Val(resp.suggestions).cat[1] = [value |-> c, score |-> 10000]
           /\ Val(resp.suggestions).subcat # <<>>
           /\ Val(resp.suggestions).subcat[1] = [cat |-> c, value |-> sc, score |-> 10000]

\* the sum of the scores of a list of suggestions, in ten-thousandths
RECURSIVE score_sum(_, _)
score_sum(list, i) == IF i = 0 THEN 0 ELSE score_sum(list, i - 1) + list[i].score

\* the scores of a list sum to 1 up to the rounding of each to 4 decimals
sums_to_one(list) ==
    LET d == score_sum(list, Len(list)) - 10000
    IN  2 * (IF d < 0 THEN -d ELSE d) <= Len(list)

\* the categories, and the (category, subcategory) pairs, of the qualifying neighbors
QualifyingCats == {Val(texts[n].cat) : n \in {q \in Qualifying : Truthy(texts[q].cat)}}

QualifyingPairs ==
    {<<Val(texts[n].cat), Val(texts[n].subcat)>> :
        n \in {q \in Qualifying : Truthy(texts[q].cat) /\ Truthy(texts[q].subcat)}}

\* C15 as stated: in every suggestion result the scores of the categories returned sum
\* to 1 and the scores of the pairs returned sum to 1, up to rounding.
C15_ScoresSumToOne ==
    (SuggestAsked /\ resp.suggestions # None) =>
        /\ sums_to_one(Val(resp.suggestions).cat)
        /\ Val(resp.suggestions).subcat # <<>> => sums_to_one(Val(resp.suggestions).subcat)

\* C15 amended: the categories returned are the first three at most; their scores sum to
\* 1 up to rounding when the qualifying neighbors have at most three distinct categories
\* and never to more; the same holds of the pairs, of which none is returned when no
\* qualifying neighbor has both a category and a subcategory.
C15_ScoresSumToOneUpToThree ==
    (SuggestAsked /\ resp.suggestions # None) =>
        LET cats  == Val(resp.suggestions).cat
            pairs == Val(resp.suggestions).subcat
        IN  /\ Len(cats) = IF Cardinality(QualifyingCats) < 3
                            THEN Cardinality(QualifyingCats) ELSE 3
            /\ Len(cats) >= 1
            /\ Cardinality(QualifyingCats) <= 3 => sums_to_one(cats)
            /\ 2 * (score_sum(cats, Len(cats)) - 10000) <= Len(cats)
            /\ Len(pairs) <= 3
            /\ (pairs = <<>>) = (QualifyingPairs = {})
            /\ (pairs # <<>> /\ Cardinality(QualifyingPairs) <= 3) => sums_to_one(pairs)
            /\ 2 * (score_sum(pairs, Len(pairs)) - 10000) <= Len(pairs)

\* C15 witness: three categories were returned with a third each, 0.3333 after rounding
C15_Witness ==
    /\ SuggestAsked
    /\ resp.suggestions # None
    /\ Len(Val(resp.suggestions).cat) = 3
    /\ Cardinality(QualifyingCats) = 3
    /\ score_sum(Val(resp.suggestions).cat, 3) = 9999
    /\ Len(Val(resp.suggestions).subcat) = 3

\* the similarity of the entry n to the text of the last save, as a fraction
sim_of(n) ==
    IF AskedWords \cup EntryWords(n) = {} THEN [num |-> 0, den |-> 1]
    ELSE frac(Cardinality(AskedWords \cap EntryWords(n)),
              Cardinality(AskedWords \cup EntryWords(n)))

\* the sum of the similarities of the entries of S
RECURSIVE sim_sum(_)
sim_sum(S) ==
    IF S = {} THEN [num |-> 0, den |-> 1]
    ELSE LET n == CHOOSE n \in S : TRUE IN fadd(sim_of(n), sim_sum(S \ {n}))

\* the qualifying neighbors that have a category, and those that also have a subcategory
WithCat == {q \in Qualifying : Truthy(texts[q].cat)}

WithBoth == {q \in WithCat : Truthy(texts[q].subcat)}

\* C16: the suggestions of a save are made of exactly the entries with a category or a
\* subcategory whose similarity to the saved text is at least 1/10: these, the five most
\* similar at most, are the neighbor list; each returned category has as score the
\* share that the neighbors of that category have in the similarities of all those
\* that have a category, and each returned pair the share of the neighbors with its
\* key among those that have both; there are no suggestions when none has a category.
C16_ThresholdInclusive ==
    SuggestAsked =>
        IF WithCat = {} THEN resp.suggestions = None
        ELSE /\ resp.suggestions # None
             /\ LET sug   == Val(resp.suggestions)
                     names == {sug.neighbors[i].symbol : i \in 1..Len(sug.neighbors)}
                 IN  /\ Len(sug.neighbors) = Cardinality(names)
                     /\ names \subseteq Qualifying
                     /\ IF Cardinality(Qualifying) <= 5 THEN names = Qualifying
                        ELSE Cardinality(names) = 5
                     /\ \A i \in 1..Len(sug.neighbors) :
                           sug.neighbors[i].sim =
                              round4(sim_of(sug.neighbors[i].symbol), [num |-> 1, den |-> 1])
                     /\ Cardinality(QualifyingCats) <= 3 =>
                           {sug.cat[i].value : i \in 1..Len(sug.cat)} = QualifyingCats
                     /\ \A i \in 1..Len(sug.cat) :
                           LET group == {q \in WithCat : Val(texts[q].cat) = sug.cat[i].value}
                           IN  /\ group # {}
                               /\ sug.cat[i].score = round4(sim_sum(group), sim_sum(WithCat))
                     /\ \A i \in 1..Len(sug.subcat) :
                           LET key   == sug.subcat[i].cat \o <<":", ":">> \o sug.subcat[i].value
                               group == {q \in WithBoth :
                                           Val(texts[q].cat) \o <<":", ":">>
                                              \o Val(texts[q].subcat) = key}
                           IN  /\ group # {}
                               /\ sug.subcat[i].score =
                                     round4(sim_sum(group), sim_sum(WithBoth))

\* C16 witness: a neighbor at exactly 1/10 is in the neighbor list and gives its
\* category a share, next to a neighbor of another category; an entry at 1/11 is left out
C16_Witness ==
    /\ SuggestAsked
    /\ resp.suggestions # None
    /\ \E n \in Qualifying :
          /\ sim_of(n) = [num |-> 1, den |-> 10]
          /\ \E i \in 1..Len(Val(resp.suggestions).neighbors) :
                Val(resp.suggestions).neighbors[i] = [symbol |-> n, sim |-> 1000]
          /\ \E i \in 1..Len(Val(resp.suggestions).cat) :
                /\ Val(resp.suggestions).cat[i].value = Val(texts[n].cat)
                /\ Val(resp.suggestions).cat[i].score \notin {0, 10000}
    /\ \E o \in tagged(texts) \ Qualifying : sim_of(o) = [num |-> 1, den |-> 11]

----------------------------------------------------------------------------
(* More claims about the store, checked under Spec *)

\* C17: a save reports created when the symbol had no entry before it and updated
\* when it had one, and its hash is the one stored, that of the body saved; a save of
\* the same symbol, body, category and subcategory as the accepted save before it is
\* accepted, reports updated and has the same hash.
C17_CreatedThenUpdated ==
    [][/\ (SaveAccepted /\ nsaves' = nsaves + 1 /\ req'.args = req.args)
            => resp'.kind = "result"
       /\ SaveStep =>
            LET symbol == Val(req'.args.symbol)
            IN  /\ resp'.result.status =
                      IF symbol \in DOMAIN texts THEN "updated" ELSE "created"
                /\ resp'.result.hash = texts'[symbol].hash
                /\ texts'[symbol].hash = sha256_text(texts'[symbol].body)
                /\ (/\ SaveAccepted
                    /\ req.args.symbol = req'.args.symbol
                    /\ req.args.text = req'.args.text
                    /\ req.args.cat = req'.args.cat
                    /\ req.args.subcat = req'.args.subcat)
                   => /\ resp'.result.status = "updated"
                      /\ resp'.result.hash = resp.result.hash]_vars

\* C17 witness: the second of two saves of one symbol reported updated, with the
\* taxonomy it found equal to the one it saved
C17_Witness ==
    /\ SaveAccepted
    /\ nsaves = 2
    /\ Cardinality(DOMAIN texts) = 1
    /\ resp.result.status = "updated"
    /\ req.args.cat # None
    /\ resp.result.prev = [cat |-> req.args.cat, subcat |-> req.args.subcat]
    /\ resp.result.hash = sha256_text(Val(req.args.text))

\* the aliases a save request supplies, as save_text writes them
supplied(args) == {strip(args.aliases[i]) : i \in 1..Len(args.aliases)} \ {<<>>}

\* C18: an accepted save maps every alias it supplies to its symbol and leaves every
\* other alias mapped as it was; no step removes an alias or maps one otherwise.
C18_AliasLastWriterWins ==
    [][/\ \A a \in DOMAIN aliases : a \in DOMAIN aliases'
       /\ ~SaveStep => aliases' = aliases
       /\ SaveStep =>
            /\ DOMAIN aliases' = DOMAIN aliases \cup supplied(req'.args)
            /\ \A a \in supplied(req'.args) : aliases'[a] = Val(req'.args.symbol)
            /\ \A a \in DOMAIN aliases \ supplied(req'.args) : aliases'[a] = aliases[a]]_vars

\* C18 witness: an alias now maps to the symbol of the last save, which supplied it,
\* while another entry has the taxonomy of the only earlier save that supplies it too
C18_Witness ==
    /\ SaveAccepted
    /\ nsaves = 2
    /\ req.args.aliases = << <<"b">> >>
    /\ aliases[<<"b">>] = Val(req.args.symbol)
    /\ \E s \in DOMAIN texts \ {Val(req.args.symbol)} :
          texts[s].cat = Some(<<"k">>) /\ texts[s].subcat = None

\* a save request as the claim describes the ones to refuse
refused(args) ==
    \/ args.symbol = None
    \/ args.text = None
    \/ args.symbol # None /\ (Val(args.symbol) = <<>> \/ Len(Val(args.symbol)) > 128)
    \/ args.text # None /\ Val(args.text) = <<>>
    \/ args.cat # None /\ Len(Val(args.cat)) > 64
    \/ args.subcat # None /\ Len(Val(args.subcat)) > 128
    \/ \E i \in 1..Len(args.aliases) : args.aliases[i] = JsonNull

\* C19: a save request with symbol or body missing or empty, with symbol, category or
\* subcategory over its length bound, or with an alias that is not a string, is answered
\* with a fault and leaves the entry table and the alias index as they were; any other
\* save request is accepted.
C19_InvalidSaveRefused ==
    [][nsaves' = nsaves + 1 =>
        IF refused(req'.args)
        THEN /\ resp'.kind = "fault"
             /\ texts' = texts
             /\ aliases' = aliases
        ELSE resp'.kind = "result"]_vars

\* C19 witness: a request with an alias that is not a string was refused: the store has
\* an entry, but none for the request's symbol and no alias for the string it supplied
C19_Witness ==
    /\ req.method = "save"
    /\ resp.kind = "fault"
    /\ \E i \in 1..Len(req.args.aliases) : req.args.aliases[i] = JsonNull
    /\ DOMAIN texts # {}
    /\ DOMAIN aliases # {}
    /\ Val(req.args.symbol) \notin DOMAIN texts
    /\ <<"c">> \notin DOMAIN aliases

----------------------------------------------------------------------------
(* Claims about concurrent saves, checked under SpecRace *)

\* the taxonomy stored for symbol, None and None when it has no entry
stored_meta(symbol) ==
    IF symbol \in DOMAIN texts
    THEN [cat |-> texts[symbol].cat, subcat |-> texts[symbol].subcat]
    ELSE [cat |-> None, subcat |-> None]

\* C20: saves handled concurrently by several processes, in any interleaving of their
\* steps: every save of well-formed arguments succeeds; a commit leaves the entry equal
\* to the arguments of the save that commits, and nothing else changes the tables; the
\* previous a save returns is the taxonomy stored when it read it.
C20_ConcurrentSaves ==
    [][/\ (texts' # texts \/ aliases' # aliases) =>
            \E w \in Workers : tx[w].pc = "written" /\ tx'[w].pc = "committed"
       /\ \A w \in Workers :
            LET symbol == Val(tx'[w].args.symbol)
            IN  /\ (tx[w].pc # "meta" /\ tx'[w].pc = "meta") =>
                      tx'[w].prev = stored_meta(symbol)
                /\ (tx[w].pc = "written" /\ tx'[w].pc = "committed") =>
                      /\ symbol \in DOMAIN texts'
                      /\ texts'[symbol].body = Val(tx[w].args.text)
                      /\ texts'[symbol].cat = tx[w].args.cat
                      /\ texts'[symbol].subcat = tx[w].args.subcat
                /\ (tx[w].pc # "done" /\ tx'[w].pc = "done" /\ ~refused(tx'[w].args)) =>
                      /\ tx'[w].resp.kind = "result"
                      /\ tx'[w].resp.result.prev = tx[w].prev]_vars

----------------------------------------------------------------------------
(* Claims about the tool-calling bridge, checked under SpecBridge *)

\* a step of the tool loop that executes the tool call tc
Executes(tc) ==
    /\ br.pc = "tools"
    /\ tc = Head(br.pending)
    /\ br'.pending = Tail(br.pending)

\* C21: when a save or get call issued by the model ends in a fault that is not a
\* transport failure (validation, not found, protocol), the fault is appended to the
\* conversation as the result of that tool call and the loop goes on with the next tool
\* call or the next model turn; only a transport failure ends the run with an error
\* before the step cap.
C21_FaultsBecomeToolResults ==
    [][/\ \A tc \in {Head(br.pending) : x \in {1} \cap DOMAIN br.pending} :
            (Executes(tc) /\ tc.name \in {"sm_save", "sm_get"} /\ br'.last.kind = "fault") =>
                /\ br'.messages =
                      Append(br.messages, message("tool", <<>>, tc.id, tc.name, br'.last))
                /\ br'.out \in {"none", "cap"}
                /\ br'.pc \in IF br'.out = "cap" THEN {"done"} ELSE {"tools", "chat"}
       /\ (br.out = "none" /\ br'.out \notin {"none", "final", "strict", "cap"}) =>
            br'.out = "transport"]_vars

----------------------------------------------------------------------------
(* Claims about the selection step, checked under SpecPick *)

\* the selection the claim describes for the suggestions sug
claimed_pick(sug) ==
    LET cats     == sug.cat
        pairs    == sug.subcat
        C        == IF cats # <<>> THEN Some(cats[1].value) ELSE None
        Cs       == IF cats # <<>> THEN cats[1].score ELSE 0
        matches  == {i \in 1..Len(pairs) : C # None /\ pairs[i].cat = Val(C)}
        best     == IF matches # {} THEN CHOOSE i \in matches : \A j \in matches : i <= j
                    ELSE 1
        sub      == IF pairs = <<>> THEN None ELSE Some(pairs[best].value)
        ps       == IF pairs = <<>> THEN 0 ELSE pairs[best].score
        replaced == pairs # <<>> /\ matches = {}
        newC     == IF replaced THEN Some(pairs[1].cat) ELSE C
        newCs    == IF replaced /\ cats = <<>> THEN ps ELSE Cs
    IN  [cat    |-> newC,
         subcat |-> sub,
         score  |-> IF newC # None /\ sub # None
                    THEN (IF newCs < ps THEN newCs ELSE ps)
                    ELSE IF newC # None THEN newCs
                    ELSE IF sub # None THEN ps
                    ELSE 0]

\* C22: the selection is the first category C with its score Cs and the first pair
\* whose category is C; when no pair matches, the first pair, whose category replaces C,
\* Cs keeping its value unless it was unset; the combined score is min(Cs, pair score)
\* when a category and a subcategory are chosen, else the score that is present, else 0.
C22_PickTop ==
    ninv = 1 => sel = claimed_pick(Val(result.suggestions))

----------------------------------------------------------------------------
(* More claims about the suggester, checked under SpecSuggest *)

\* the qualifying neighbors whose category is cat and whose subcategory is subcat
pair_group(cat, subcat) ==
    {q \in WithBoth : texts[q].cat = Some(cat) /\ texts[q].subcat = Some(subcat)}

\* C23: the pairs of a suggestion result are keyed by (category, subcategory): each
\* returned pair is the category and the subcategory of stored qualifying neighbors, its
\* score is the share that the neighbors with exactly that category and that
\* subcategory have among those with both (so neighbors of another pair, or with a
\* subcategory only, add nothing to it), no pair is returned twice, and with at most
\* three distinct pairs among the neighbors all of them are returned.
C23_PairsKeyedJointly ==
    (SuggestAsked /\ resp.suggestions # None) =>
        LET pairs == Val(resp.suggestions).subcat
        IN  /\ \A i \in 1..Len(pairs) :
                  /\ pair_group(pairs[i].cat, pairs[i].value) # {}
                  /\ pairs[i].score = round4(sim_sum(pair_group(pairs[i].cat, pairs[i].value)),
                                            sim_sum(WithBoth))
            /\ \A i, j \in 1..Len(pairs) :
                  (pairs[i].cat = pairs[j].cat /\ pairs[i].value = pairs[j].value) => i = j
            /\ Cardinality(QualifyingPairs) <= 3 =>
                  {<<pairs[i].cat, pairs[i].value>> : i \in 1..Len(pairs)} = QualifyingPairs


\* C24: the suggestions of a save are computed from the entries other than the one it
\* saved: that entry is not in the neighbor list, the score of each returned category
\* and pair is the share its neighbors other than that entry have among the others, and
\* there are no suggestions when no other qualifying entry has a category.
C24_SuggestionsExcludeSelf ==
    SuggestAsked =>
        LET self   == Val(req.args.symbol)
            others == WithCat \ {self}
            both   == WithBoth \ {self}
        IN  IF others = {} THEN resp.suggestions = None
            ELSE /\ resp.suggestions # None
                 /\ LET sug == Val(resp.suggestions)
                    IN  /\ \A i \in 1..Len(sug.neighbors) : sug.neighbors[i].symbol # self
                        /\ \A i \in 1..Len(sug.cat) :
                              LET group == {q \in others : Val(texts[q].cat) = sug.cat[i].value}
                              IN  /\ group # {}
                                  /\ sug.cat[i].score = round4(sim_sum(group), sim_sum(others))
                        /\ \A i \in 1..Len(sug.subcat) :
                              LET group == {q \in both :
                                              pair_key(Val(texts[q].cat), Val(texts[q].subcat))
                                                 = pair_key(sug.subcat[i].cat,
                                                            sug.subcat[i].value)}
                              IN  /\ group # {}
                                  /\ sug.subcat[i].score = round4(sim_sum(group), sim_sum(both))

----------------------------------------------------------------------------
(* Claims about blocks with part of a taxonomy, checked under SpecPartial *)

\* a step of cmd_save that applies the selection as it was shown, after a first save
\* that supplied exactly one of category and subcategory
AcceptsPartial ==
    /\ Decides(<<"y">>)
    /\ typed_answer(stdin') # <<"e">>
    /\ (blk.cat = None) # (blk.subcat = None)

\* C25 as stated: when the first save supplied one of category and subcategory and the
\* selection is accepted, the follow-up save carries the supplied field as the caller
\* gave it, and the entry has that value afterwards.
C25_AcceptKeepsSupplied ==
    [][AcceptsPartial =>
        /\ Len(rpcs') = 2
        /\ blk.cat # None =>
              rpcs'[2].args.cat = blk.cat /\ texts'[blk.symbol].cat = blk.cat
        /\ blk.subcat # None =>
              rpcs'[2].args.subcat = blk.subcat /\ texts'[blk.symbol].subcat = blk.subcat]_vars

\* C25 amended: the follow-up save carries the selection picked from the suggestions of
\* the first save as category and as subcategory, also for the field the caller
\* supplied, and when the server accepts it the entry has the selection afterwards; the
\* supplied field keeps its value only if the selection has the same value for it.
C25_AcceptAppliesSelection ==
    [][AcceptsPartial =>
        /\ sel = pick_top_suggestion(Val(rpcs[1].resp.suggestions))
        /\ Len(rpcs') = 2
        /\ rpcs'[2].args = [rpcs[1].args EXCEPT !.cat = sel.cat, !.subcat = sel.subcat]
        /\ IF rpcs'[2].resp.kind = "result"
           THEN /\ texts'[blk.symbol].cat = sel.cat
                /\ texts'[blk.symbol].subcat = sel.subcat
                /\ blk.cat # None => (texts'[blk.symbol].cat = blk.cat) = (sel.cat = blk.cat)
                /\ blk.subcat # None =>
                      (texts'[blk.symbol].subcat = blk.subcat) = (sel.subcat = blk.subcat)
           ELSE texts' = texts /\ aliases' = aliases]_vars

\* C25 witness: a block that supplied the category k was saved, the selection (m, t)
\* was accepted, and the entry has the category m
C25_Witness ==
    /\ pc = "idle"
    /\ ans = <<"y">>
    /\ blk.cat = Some(<<"k">>)
    /\ blk.subcat = None
    /\ printed[Len(printed)].outcome = "applied"
    /\ sel.cat = Some(<<"m">>)
    /\ texts[blk.symbol].cat = Some(<<"m">>)
    /\ texts[blk.symbol].subcat = Some(<<"t">>)

----------------------------------------------------------------------------
(* Claims about the alias index, checked under Spec *)

\* C26: every alias of the alias index maps to a symbol that has an entry, and a read
\* of a name that has no entry but is an alias returns the body of the entry the alias
\* maps to, never a fault.
C26_AliasesTargetEntries ==
    /\ \A a \in DOMAIN aliases : aliases[a] \in DOMAIN texts
    /\ (/\ req.method = "read"
        /\ contains(req.uri, <<":", "/", "/">>)
        /\ last_segment(req.uri) \notin DOMAIN texts
        /\ last_segment(req.uri) \in DOMAIN aliases)
       => /\ resp.kind = "contents"
          /\ resp.text = texts[aliases[last_segment(req.uri)]].body

\* C26 witness: a read of a name that is only an alias returned the body of an entry,
\* while another alias maps to another entry
C26_Witness ==
    /\ req.method = "read"
    /\ last_segment(req.uri) \notin DOMAIN texts
    /\ last_segment(req.uri) \in DOMAIN aliases
    /\ resp.kind = "contents"
    /\ \E a \in DOMAIN aliases : aliases[a] # aliases[last_segment(req.uri)]

----------------------------------------------------------------------------
(* Claims about the timestamps, checked under SpecClock *)

\* C27: a save of a symbol that has no entry sets ts_created and ts_updated to the time
\* of the save; a save of a symbol that has one leaves ts_created as it was and sets
\* ts_updated to the time of the save; the ts_created and ts_updated a save returns are
\* those stored; nothing else changes the timestamps of an entry; ts_updated is never
\* earlier than ts_created.
C27_CreatedOnceUpdatedLast ==
    [][/\ \A s \in DOMAIN texts' : texts'[s].ts_created <= texts'[s].ts_updated
       /\ \A s \in DOMAIN texts :
            (~SaveStep \/ s # Val(req'.args.symbol)) =>
                /\ s \in DOMAIN texts'
                /\ texts'[s].ts_created = texts[s].ts_created
                /\ texts'[s].ts_updated = texts[s].ts_updated
       /\ SaveStep =>
            LET symbol == Val(req'.args.symbol)
            IN  /\ texts'[symbol].ts_updated = now
                /\ texts'[symbol].ts_created =
                      IF symbol \in DOMAIN texts THEN texts[symbol].ts_created ELSE now
                /\ resp'.result.ts_created = texts'[symbol].ts_created
                /\ resp'.result.ts_updated = texts'[symbol].ts_updated]_vars

\* C27 witness: an entry created by a save at time 1 was saved again at a later time,
\* and the save returned both times
C27_Witness ==
    /\ SaveAccepted
    /\ nsaves = 2
    /\ texts[Val(req.args.symbol)].ts_created = 1
    /\ texts[Val(req.args.symbol)].ts_updated = now
    /\ now > 1
    /\ resp.result.ts_created = 1
    /\ resp.result.ts_updated = now

----------------------------------------------------------------------------
(* Claims about the tool loop, checked under SpecBridge *)

\* the cap the claim states for a bridge script
claimed_cap(script) == IF script = "MCP2genericLLM" THEN 8 ELSE 5

\* the turns of a conversation that carried tool calls
turns_with_calls(msgs) == {i \in DOMAIN msgs : msgs[i].role = "assistant"}

\* the number of tool calls the model issued in a conversation
RECURSIVE calls_issued(_)
calls_issued(msgs) ==
    IF msgs = <<>> THEN 0 ELSE Len(Head(msgs).calls) + calls_issued(Tail(msgs))

\* the number of tool calls whose result was appended to a conversation
calls_answered(msgs) == Cardinality({i \in DOMAIN msgs : msgs[i].role = "tool"})

\* what holds of the tool loop: at most the cap of chat-completion requests; the final
\* answer at the first turn without tool calls, every call of the turns before it
\* answered and nothing executed after it; the step-cap error exactly when all the turns
\* up to the cap carried tool calls and every one of them was answered; and every run
\* that starts ends
ToolLoopEnds ==
    /\ [](br.steps <= claimed_cap(br.script))
    /\ [][/\ (br.out # "final" /\ br'.out = "final") =>
               /\ br.pc = "chat"
               /\ br'.steps = br.steps + 1
               /\ Cardinality(turns_with_calls(br.messages)) = br.steps
               /\ br'.messages = br.messages
               /\ br'.pc = "done"
          /\ (br.pc = "chat" /\ br'.steps = br.steps + 1 /\ br'.messages = br.messages
                 /\ br'.out # "transport") => br'.out = "final"
          /\ br.out = "final" => UNCHANGED <<br, texts, aliases>>]_vars
    /\ [](br.out = "final" => calls_answered(br.messages) = calls_issued(br.messages))
    /\ [](br.out = "cap" <=>
            /\ br.pc = "done"
            /\ Cardinality(turns_with_calls(br.messages)) = claimed_cap(br.script)
            /\ calls_answered(br.messages) = calls_issued(br.messages))
    /\ (br.pc # "off") ~> (br.pc = "done")

\* C28: the tool loop always terminates: it issues at most the fixed cap of
\* chat-completion requests (8 in MCP2genericLLM, 5 in ollama_smMCP); it ends with the
\* model's final answer at the first turn that carries no tool calls, and no tool call
\* is executed after it; and a run in which every turn up to the cap carried tool calls
\* fails with the step-cap error, unless a transport failure or, in strict mode, a get
\* ended it.
C28_ToolLoopTerminates ==
    /\ ToolLoopEnds
    /\ []((/\ br.pc = "done"
           /\ Cardinality(turns_with_calls(br.messages)) = claimed_cap(br.script)
           /\ br.out \notin {"transport", "strict"}) => br.out = "cap")

====
